---- MODULE Spec2Model ----
(***************************************************************************)
(* State-machine model of the OVT treasury program (src/program):          *)
(*   - the instruction handlers of OVTProgram (Initialize, UpdateNAV,      *)
(*     BuybackBurn) acting on the state account handed in by the host,     *)
(*   - the NAV and supply guards of OVTState,                              *)
(*   - the admin multisig bookkeeping of mock_sdk::test_utils::TestClient  *)
(*     (create_admin_account, sign_action, verify_action).                 *)
(*                                                                         *)
(* Numbers.  u64 amounts are modelled by the integers the model            *)
(* enumerates, all below 2^27.  For such values `x as f64` is exact and    *)
(* the f64 quotient new/old compares with the literals 0.05, 0.9, 1.1,     *)
(* 41.0 exactly as the rational new/old compares with 1/20, 9/10, 11/10,   *)
(* 41 (the nearest distinct quotient is further than 1e-9 away, an ulp is  *)
(* below 1e-14), so the guards are written as cross-multiplications.       *)
(* The u128 product payment * supply does not fit TLC's integers;          *)
(* MulDivFloor computes its quotient by nav bit by bit.                    *)
(***************************************************************************)
EXTENDS Integers, Sequences, FiniteSets, TLC

VARIABLES
    state_account,    \* ctx.get(0): [data, owner] of the state account
    cfg_test,         \* whether the crate is built with cfg(test)
    admin_accounts,   \* TestClient.admin_accounts (keys mapped to true)
    pending_actions,  \* TestClient.pending_actions: Seq of AdminAction
    last,             \* the last call: its name, its result, and the NAV
                      \* and supply the state account held before it
    burns,            \* number of burns committed since the state was set up
    genesis,          \* history: NAV set by the first accepted UpdateNAV
    scenario,         \* history: progress through the NAV scenario
    verification,     \* the last application of verify_bitcoin_payment:
                      \* its arguments and what it returned
    authorization,    \* the last call of a RunesClient multisig check:
                      \* its arguments and what it returned
    computation,      \* a burn computation at full width: its operands
                      \* and, once carried out, its result
    cache,            \* RunesClient.cache: the body stored under each key
    request           \* the make_request call in flight or last returned

vars == <<state_account, cfg_test, admin_accounts, pending_actions,
          last, burns, genesis, scenario, verification,
                   authorization, computation, cache, request>>

(***************************************************************************)
(* Program constants                                                       *)
(***************************************************************************)
OVT_STATE_SIZE == 64
SERIALIZED_LEN == 57
DEFAULT_SPACE == 1024
INITIAL_NAV == 1000000
MOCK_TIMESTAMP == 1000
required_signatures == 3
total_admins == 5

ProgramId == "program_id"
ZeroPubkey == "pubkey_zero"

\* The 33-byte treasury keys the model uses: the all-zero key of the tests
\* (no compressed public key) and a key generated by secp256k1.
ZeroKey == "zero33"
GeneratedKey == "secp_key"
TreasuryKeys == {ZeroKey, GeneratedKey}

(***************************************************************************)
(* OVTState and its byte image in an account                               *)
(***************************************************************************)
OVTState(nav, key, supply, lnu) ==
    [nav_sats |-> nav, treasury_pubkey_bytes |-> key,
     total_supply |-> supply, last_nav_update |-> lnu]

\* What 57 zero bytes decode to.
ZERO_STATE == OVTState(0, ZeroKey, 0, 0)

\* Account data is the borsh image of `st` (57 bytes) cut or zero-padded to
\* `len` bytes; a buffer shorter than the image holds zeros only.
Bytes(st, len) == [st |-> IF len < SERIALIZED_LEN THEN ZERO_STATE ELSE st,
                   len |-> len]

\* Vec::resize(space, 0)
Resize(data, space) == Bytes(data.st, space)

\* borsh::to_vec(&state)
Serialize(st) == Bytes(st, SERIALIZED_LEN)

Ok(v) == [ok |-> TRUE, err |-> "Ok", val |-> v]
Err(e) == [ok |-> FALSE, err |-> e, val |-> ZERO_STATE]

\* AccountInfo::get_data: empty data and any buffer that is not exactly one
\* OVTState image (try_from_slice rejects leftover bytes) are errors.
get_data(acct) ==
    IF acct.data.len = 0 THEN Err("InvalidAccountData")
    ELSE IF acct.data.len = SERIALIZED_LEN THEN Ok(acct.data.st)
    ELSE Err("InvalidAccountData")

\* AccountInfo::set_data: [res, acct]
set_data(acct, is_writable, st) ==
    IF ~is_writable THEN [res |-> "InvalidAccountData", acct |-> acct]
    ELSE [res |-> "Ok", acct |-> [acct EXCEPT !.data = Serialize(st)]]

\* system::create_program_account
create_program_account(acct, space) ==
    [data |-> Resize(acct.data, space), owner |-> ProgramId]

\* system::initialize_account
initialize_account(acct, is_writable, st) == set_data(acct, is_writable, st)

(***************************************************************************)
(* Guards                                                                  *)
(***************************************************************************)
\* (a as f64) / (b as f64) > num/den and < num/den, b > 0.
RatioAbove(a, b, num, den) == a * den > num * b
RatioBelow(a, b, num, den) == a * den < num * b

\* Variants of the NAV guard that the properties must tell from the code's:
\* the window taken around the stored NAV, and the upper bound made strict.
validate_nav_update_per_step(st, new_nav_sats) ==
    IF st.nav_sats > 0
    THEN IF RatioAbove(new_nav_sats, st.nav_sats, 41, 1)
            \/ RatioBelow(new_nav_sats, st.nav_sats, 1, 20)
         THEN "InvalidNAVUpdate"
         ELSE "Ok"
    ELSE "Ok"

validate_nav_update_no_window(st, new_nav_sats) == "Ok"

validate_nav_update_strict(st, new_nav_sats) ==
    IF st.nav_sats > 0
    THEN IF ~RatioBelow(new_nav_sats, INITIAL_NAV, 41, 1)
            \/ RatioBelow(new_nav_sats, INITIAL_NAV, 1, 20)
         THEN "InvalidNAVUpdate"
         ELSE "Ok"
    ELSE "Ok"

\* A variant of the guard applied also when nav_sats = 0.
validate_nav_update_from_zero(st, new_nav_sats) ==
    IF RatioAbove(new_nav_sats, INITIAL_NAV, 41, 1)
       \/ RatioBelow(new_nav_sats, INITIAL_NAV, 1, 20)
    THEN "InvalidNAVUpdate"
    ELSE "Ok"

\* OVTState::validate_nav_update
validate_nav_update(st, new_nav_sats) ==
    IF st.nav_sats > 0
    THEN IF RatioAbove(new_nav_sats, INITIAL_NAV, 41, 1)
            \/ RatioBelow(new_nav_sats, INITIAL_NAV, 1, 20)
         THEN "InvalidNAVUpdate"
         ELSE "Ok"
    ELSE "Ok"

\* A variant of the supply guard with both bounds made strict.
validate_supply_change_strict(st, new_supply) ==
    IF st.total_supply > 0
    THEN IF ~RatioBelow(new_supply, st.total_supply, 11, 10)
            \/ ~RatioAbove(new_supply, st.total_supply, 9, 10)
         THEN "InvalidSupplyChange"
         ELSE "Ok"
    ELSE "Ok"

\* OVTState::validate_supply_change
validate_supply_change(st, new_supply) ==
    IF st.total_supply > 0
    THEN IF RatioAbove(new_supply, st.total_supply, 11, 10)
            \/ RatioBelow(new_supply, st.total_supply, 9, 10)
         THEN "InvalidSupplyChange"
         ELSE "Ok"
    ELSE "Ok"

\* bitcoin::PublicKey::from_slice on the 33 stored bytes
get_treasury_pubkey(st) ==
    IF st.treasury_pubkey_bytes = GeneratedKey THEN "Ok" ELSE "InvalidTreasuryKey"

\* OVTState::validate_treasury
validate_treasury(st) == get_treasury_pubkey(st)

(***************************************************************************)
(* Burn arithmetic                                                         *)
(***************************************************************************)
\* Quotients are kept exactly up to QuotientCap, which is above every supply
\* of the model; a larger quotient is kept as QuotientCap.  (For operands
\* below 2^27 the quotient is below 2^54, so the code's test against
\* u64::MAX passes and the next test, checked_sub, rejects it.)
QuotientCap == 536870912

Capped(q) == IF q > QuotientCap THEN QuotientCap ELSE q

\* [q, r] with a * b = q * n + r and 0 <= r < n (q capped), for n > 0:
\* a * b = 2 * (a * (b \div 2)) + (b % 2) * a.
RECURSIVE MulDivRem(_, _, _)
MulDivRem(a, b, n) ==
    IF b = 0 THEN [q |-> 0, r |-> 0]
    ELSE LET h == MulDivRem(a, b \div 2, n)
             r2 == 2 * h.r
             q2 == 2 * h.q + (IF r2 >= n THEN 1 ELSE 0)
             rr == IF r2 >= n THEN r2 - n ELSE r2
             add == IF b % 2 = 1 THEN a ELSE 0
             r3 == rr + (add % n)
         IN  [q |-> Capped(q2 + (add \div n) + (IF r3 >= n THEN 1 ELSE 0)),
              r |-> IF r3 >= n THEN r3 - n ELSE r3]

\* A variant of the burn quotient that rounds up.
MulDivCeil(payment, supply, nav) ==
    LET d == MulDivRem(payment, supply, nav) IN
    IF d.r > 0 THEN Capped(d.q + 1) ELSE d.q

\* (payment as u128).checked_mul(supply as u128).checked_div(nav as u128)
MulDivFloor(payment, supply, nav) == MulDivRem(payment, supply, nav).q

(***************************************************************************)
(* The burn arithmetic at the width of the code.  u64 and u128 values do   *)
(* not fit TLC's integers: here a number is the sequence of its base-256   *)
(* digits, least significant first, 8 digits for a u64 and 16 for a u128.  *)
(***************************************************************************)
Base == 2 ^ 8
U64Digits == 64 \div 8
U128Digits == 128 \div 8

ZeroDigits(n) == [i \in 1..n |-> 0]
\* x as u64, for a literal x below 2^31
FromInt(x) ==
    [i \in 1..U64Digits |-> IF i > 4 THEN 0 ELSE (x \div Base ^ (i - 1)) % Base]
\* 2^k as u64
Pow2(k) ==
    [i \in 1..U64Digits |-> IF i = (k \div 8) + 1 THEN 2 ^ (k % 8) ELSE 0]
\* u64::MAX
U64_MAX == [i \in 1..U64Digits |-> Base - 1]

\* x as u128
Widen(a) == [i \in 1..U128Digits |-> IF i <= Len(a) THEN a[i] ELSE 0]
\* result <= u64::MAX as u128, and result as u64
FitsU64(a) == \A i \in (U64Digits + 1)..Len(a) : a[i] = 0
Narrow(a) == [i \in 1..U64Digits |-> a[i]]

\* a < b, for two numbers of the same number of digits
Less(a, b) ==
    \E i \in 1..Len(a) : a[i] < b[i] /\ \A j \in (i + 1)..Len(a) : a[j] = b[j]

\* Digits i.. of a - b, given the borrow into digit i (a >= b).
RECURSIVE SubFrom(_, _, _, _)
SubFrom(a, b, i, borrow) ==
    IF i > Len(a) THEN <<>>
    ELSE LET d == a[i] - b[i] - borrow IN
         <<(d + Base) % Base>> \o SubFrom(a, b, i + 1, IF d < 0 THEN 1 ELSE 0)
Sub(a, b) == SubFrom(a, b, 1, 0)

\* Digits i.. of a + b, given the carry into digit i (the sum fits).
RECURSIVE AddFrom(_, _, _, _)
AddFrom(a, b, i, carry) ==
    IF i > Len(a) THEN <<>>
    ELSE LET d == a[i] + b[i] + carry IN
         <<d % Base>> \o AddFrom(a, b, i + 1, d \div Base)
Add(a, b) == AddFrom(a, b, 1, 0)

\* Sum of a[i] * b[j] over i + j = k + 1, from index i on.
RECURSIVE Column(_, _, _, _)
Column(a, b, k, i) ==
    IF i > Len(a) \/ i > k THEN 0
    ELSE (IF k + 1 - i <= Len(b) THEN a[i] * b[k + 1 - i] ELSE 0)
         + Column(a, b, k, i + 1)

\* Digits k.. of a * b, given the carry into digit k; n digits in all.
RECURSIVE MulFrom(_, _, _, _, _)
MulFrom(a, b, k, carry, n) ==
    IF k > n THEN <<>>
    ELSE LET d == Column(a, b, k, 1) + carry IN
         <<d % Base>> \o MulFrom(a, b, k + 1, d \div Base, n)

\* The product of two u64 values kept to 64 bits.
wrapping_mul(a, b) == Widen(MulFrom(a, b, 1, 0, U64Digits))

\* (payment_amount_sats as u128).checked_mul(state.total_supply as u128):
\* the product of two u64 values is below 2^128, checked_mul gives Some.
wide_mul(a, b) == MulFrom(a, b, 1, 0, U128Digits)

\* a * 2^b for b < 8 (the product fits)
ShiftBits(a, b) ==
    [i \in 1..Len(a) |->
        ((a[i] * 2 ^ b) % Base) + (IF i = 1 THEN 0 ELSE (a[i - 1] * 2 ^ b) \div Base)]

\* [d, r] with r0 = d * n + r and r < n, for r0 < 2^(b+1) * n: the bits
\* b..0 of one quotient digit.
RECURSIVE DigitStep(_, _, _)
DigitStep(r0, n, b) ==
    IF b < 0 THEN [d |-> 0, r |-> r0]
    ELSE LET m == ShiftBits(n, b) IN
         IF Less(r0, m) THEN DigitStep(r0, n, b - 1)
         ELSE LET h == DigitStep(Sub(r0, m), n, b - 1) IN
              [d |-> h.d + 2 ^ b, r |-> h.r]

\* Long division of a u128 by a nonzero u64 taken as u128, digit by digit
\* from digit k up: [q, r] for the digits k..16 of a.
RECURSIVE DivRem(_, _, _)
DivRem(a, n, k) ==
    IF k > U128Digits
    THEN [q |-> ZeroDigits(U128Digits), r |-> ZeroDigits(U128Digits)]
    ELSE LET h == DivRem(a, n, k + 1)
             r2 == <<a[k]>> \o SubSeq(h.r, 1, U128Digits - 1)
             s == DigitStep(r2, n, 7)
         IN  [q |-> [h.q EXCEPT ![k] = s.d], r |-> s.r]

\* product.checked_div(state.nav_sats as u128), for nav_sats > 0
wide_div(a, n) == DivRem(a, n, 1).q

\* Lines 221-234 of process_buyback_burn on u64 operands:
\* [res, new_supply].
burn_new_supply(payment_amount_sats, total_supply, nav_sats) ==
    IF ~Less(ZeroDigits(U64Digits), nav_sats)
    THEN [res |-> "InvalidNAVUpdate", new_supply |-> total_supply]
    ELSE LET product == wide_mul(payment_amount_sats, total_supply)
             result == wide_div(product, Widen(nav_sats))
         IN  IF ~FitsU64(result)
             THEN [res |-> "InvalidSupplyChange", new_supply |-> total_supply]
             ELSE LET ovt_to_burn == Narrow(result) IN
                  IF Less(total_supply, ovt_to_burn)
                  THEN [res |-> "InvalidSupplyChange", new_supply |-> total_supply]
                  ELSE [res |-> "Ok", new_supply |-> Sub(total_supply, ovt_to_burn)]

Computation(payment, supply, nav, res, new_supply) ==
    [payment |-> payment, supply |-> supply, nav |-> nav, res |-> res,
     new_supply |-> new_supply]
NoComputation == Computation(<<>>, <<>>, <<>>, "none", <<>>)

\* state.total_supply.checked_sub(ovt_to_burn): [some, val]
checked_sub(a, b) == IF b > a THEN [some |-> FALSE, val |-> 0]
                     ELSE [some |-> TRUE, val |-> a - b]

(***************************************************************************)
(* Instruction handlers.  ctx = [n_accounts, state_writable,               *)
(* authority_signer, authority_key, has_test_client]; each handler gives   *)
(* [res, acct]: the ProgramResult and the state account as it leaves it.   *)
(***************************************************************************)
Return(res, acct) == [res |-> res, acct |-> acct]

\* ProgramContext::is_admin (TestClient::is_admin behind the Option)
is_admin(ctx, admins) == ctx.has_test_client /\ ctx.authority_key \in admins

\* Variants of process_initialize: one that does not look at the signer
\* flag, one that stores the all-zero key whatever key it is given.
process_initialize_unsigned(acct, ctx, treasury_pubkey_bytes) ==
    IF ctx.n_accounts < 3 THEN Return("AccountNotFound", acct)
    ELSE LET created == create_program_account(acct, OVT_STATE_SIZE)
             state == OVTState(0, treasury_pubkey_bytes, 0, 0)
         IN  initialize_account(created, ctx.state_writable, state)

process_initialize_zero_key(acct, ctx, treasury_pubkey_bytes) ==
    IF ctx.n_accounts < 3 THEN Return("AccountNotFound", acct)
    ELSE IF ~ctx.authority_signer THEN Return("MissingRequiredSignature", acct)
    ELSE LET created == create_program_account(acct, OVT_STATE_SIZE)
             state == OVTState(0, ZeroKey, 0, 0)
         IN  initialize_account(created, ctx.state_writable, state)

\* OVTProgram::process_initialize
process_initialize(acct, ctx, treasury_pubkey_bytes) ==
    IF ctx.n_accounts < 3 THEN Return("AccountNotFound", acct)
    ELSE IF ~ctx.authority_signer THEN Return("MissingRequiredSignature", acct)
    ELSE LET created == create_program_account(acct, OVT_STATE_SIZE)
             state == OVTState(0, treasury_pubkey_bytes, 0, 0)
         IN  initialize_account(created, ctx.state_writable, state)

\* process_update_nav that also writes total_supply.
process_update_nav_resets_supply(acct, ctx, btc_price_sats) ==
    IF ctx.n_accounts < 2 THEN Return("AccountNotFound", acct)
    ELSE IF ~ctx.authority_signer THEN Return("MissingRequiredSignature", acct)
    ELSE LET read == get_data(acct) IN
         IF ~read.ok THEN Return(read.err, acct)
    ELSE LET state == read.val IN
         IF validate_nav_update(state, btc_price_sats) # "Ok"
         THEN Return(validate_nav_update(state, btc_price_sats), acct)
    ELSE set_data(acct, ctx.state_writable,
                  [state EXCEPT !.nav_sats = btc_price_sats,
                                !.total_supply = 0,
                                !.last_nav_update = MOCK_TIMESTAMP])

\* OVTProgram::process_update_nav
process_update_nav(acct, ctx, btc_price_sats) ==
    IF ctx.n_accounts < 2 THEN Return("AccountNotFound", acct)
    ELSE IF ~ctx.authority_signer THEN Return("MissingRequiredSignature", acct)
    ELSE LET read == get_data(acct) IN
         IF ~read.ok THEN Return(read.err, acct)
    ELSE LET state == read.val IN
         IF validate_nav_update(state, btc_price_sats) # "Ok"
         THEN Return(validate_nav_update(state, btc_price_sats), acct)
    ELSE set_data(acct, ctx.state_writable,
                  [state EXCEPT !.nav_sats = btc_price_sats,
                                !.last_nav_update = MOCK_TIMESTAMP])

\* process_buyback_burn without the test nav_sats > 0: the checked_div by
\* zero gives None, which ok_or turns into InvalidSupplyChange.
process_buyback_burn_unguarded(acct, ctx, admins, test_build, payment_amount_sats) ==
    IF ctx.n_accounts < 2 THEN Return("AccountNotFound", acct)
    ELSE IF ~ctx.authority_signer THEN Return("MissingRequiredSignature", acct)
    ELSE IF test_build /\ ~is_admin(ctx, admins)
         THEN Return("NotAnAdminAccount", acct)
    ELSE LET read == get_data(acct) IN
         IF ~read.ok THEN Return(read.err, acct)
    ELSE LET state == read.val IN
         IF validate_treasury(state) # "Ok"
         THEN Return(validate_treasury(state), acct)
    ELSE IF ~(state.nav_sats > 0) THEN Return("InvalidSupplyChange", acct)
    ELSE LET ovt_to_burn == MulDivFloor(payment_amount_sats,
                                        state.total_supply, state.nav_sats)
             new_supply == checked_sub(state.total_supply, ovt_to_burn)
         IN
         IF ~new_supply.some THEN Return("InvalidSupplyChange", acct)
    ELSE IF validate_supply_change(state, new_supply.val) # "Ok"
         THEN Return(validate_supply_change(state, new_supply.val), acct)
    ELSE set_data(acct, ctx.state_writable,
                  [state EXCEPT !.total_supply = new_supply.val])

\* A variant of process_buyback_burn that adds the computed amount to the
\* supply.
process_buyback_burn_minting(acct, ctx, admins, test_build, payment_amount_sats) ==
    IF ctx.n_accounts < 2 THEN Return("AccountNotFound", acct)
    ELSE IF ~ctx.authority_signer THEN Return("MissingRequiredSignature", acct)
    ELSE IF test_build /\ ~is_admin(ctx, admins)
         THEN Return("NotAnAdminAccount", acct)
    ELSE LET read == get_data(acct) IN
         IF ~read.ok THEN Return(read.err, acct)
    ELSE LET state == read.val IN
         IF validate_treasury(state) # "Ok"
         THEN Return(validate_treasury(state), acct)
    ELSE IF ~(state.nav_sats > 0) THEN Return("InvalidNAVUpdate", acct)
    ELSE LET ovt_to_burn == MulDivFloor(payment_amount_sats,
                                        state.total_supply, state.nav_sats)
             new_supply == state.total_supply + ovt_to_burn
         IN
         IF validate_supply_change(state, new_supply) # "Ok"
         THEN Return(validate_supply_change(state, new_supply), acct)
    ELSE set_data(acct, ctx.state_writable,
                  [state EXCEPT !.total_supply = new_supply])

\* A variant of process_buyback_burn that validates the treasury key after
\* the burn arithmetic.
process_buyback_burn_key_last(acct, ctx, admins, test_build, payment_amount_sats) ==
    IF ctx.n_accounts < 2 THEN Return("AccountNotFound", acct)
    ELSE IF ~ctx.authority_signer THEN Return("MissingRequiredSignature", acct)
    ELSE IF test_build /\ ~is_admin(ctx, admins)
         THEN Return("NotAnAdminAccount", acct)
    ELSE LET read == get_data(acct) IN
         IF ~read.ok THEN Return(read.err, acct)
    ELSE LET state == read.val IN
         IF ~(state.nav_sats > 0) THEN Return("InvalidNAVUpdate", acct)
    ELSE LET ovt_to_burn == MulDivFloor(payment_amount_sats,
                                        state.total_supply, state.nav_sats)
             new_supply == checked_sub(state.total_supply, ovt_to_burn)
         IN
         IF ~new_supply.some THEN Return("InvalidSupplyChange", acct)
    ELSE IF validate_supply_change(state, new_supply.val) # "Ok"
         THEN Return(validate_supply_change(state, new_supply.val), acct)
    ELSE IF validate_treasury(state) # "Ok"
         THEN Return(validate_treasury(state), acct)
    ELSE set_data(acct, ctx.state_writable,
                  [state EXCEPT !.total_supply = new_supply.val])

\* OVTProgram::process_buyback_burn
process_buyback_burn(acct, ctx, admins, test_build, payment_amount_sats) ==
    IF ctx.n_accounts < 2 THEN Return("AccountNotFound", acct)
    ELSE IF ~ctx.authority_signer THEN Return("MissingRequiredSignature", acct)
    ELSE IF test_build /\ ~is_admin(ctx, admins)
         THEN Return("NotAnAdminAccount", acct)
    ELSE LET read == get_data(acct) IN
         IF ~read.ok THEN Return(read.err, acct)
    ELSE LET state == read.val IN
         IF validate_treasury(state) # "Ok"
         THEN Return(validate_treasury(state), acct)
    ELSE IF ~(state.nav_sats > 0) THEN Return("InvalidNAVUpdate", acct)
    ELSE LET ovt_to_burn == MulDivFloor(payment_amount_sats,
                                        state.total_supply, state.nav_sats)
             new_supply == checked_sub(state.total_supply, ovt_to_burn)
         IN
         IF ~new_supply.some THEN Return("InvalidSupplyChange", acct)
    ELSE IF validate_supply_change(state, new_supply.val) # "Ok"
         THEN Return(validate_supply_change(state, new_supply.val), acct)
    ELSE set_data(acct, ctx.state_writable,
                  [state EXCEPT !.total_supply = new_supply.val])

\* Instruction data: [tag, arg, extra].  tag is the borsh variant index
\* (0 Initialize, 1 UpdateNAV, 2 BuybackBurn), extra the number of bytes
\* left over after the variant's fields.
Decodes(data) == data.tag \in {0, 1, 2} /\ data.extra = 0

\* process_instruction with a decoder that goes by the variant index alone
\* and accepts missing or left-over bytes.
process_instruction_lenient(acct, ctx, admins, test_build, data) ==
    IF data.tag \notin {0, 1, 2} THEN Return("InvalidInstructionData", acct)
    ELSE IF data.tag = 0 THEN process_initialize(acct, ctx, data.arg)
    ELSE IF data.tag = 1 THEN process_update_nav(acct, ctx, data.arg)
    ELSE process_buyback_burn(acct, ctx, admins, test_build, data.arg)

\* OVTProgram::process_instruction
process_instruction(acct, ctx, admins, test_build, data) ==
    IF ~Decodes(data) THEN Return("InvalidInstructionData", acct)
    ELSE IF data.tag = 0 THEN process_initialize(acct, ctx, data.arg)
    ELSE IF data.tag = 1 THEN process_update_nav(acct, ctx, data.arg)
    ELSE process_buyback_burn(acct, ctx, admins, test_build, data.arg)

(***************************************************************************)
(* Admin multisig bookkeeping (TestClient)                                 *)
(***************************************************************************)
AdminAction(action_type, description, signatures, signed_by) ==
    [action_type |-> action_type, description |-> description,
     signatures |-> signatures, signed_by |-> signed_by]

Contains(seq, x) == \E i \in 1..Len(seq) : seq[i] = x

\* pending_actions.iter().find(|a| a.action_type == action_type): the index
\* of the first match, 0 for None.
RECURSIVE FindFrom(_, _, _)
FindFrom(pending, action_type, i) ==
    IF i > Len(pending) THEN 0
    ELSE IF pending[i].action_type = action_type THEN i
    ELSE FindFrom(pending, action_type, i + 1)

Find(pending, action_type) == FindFrom(pending, action_type, 1)

\* A variant of TestClient::is_admin that takes every key for an admin.
client_is_admin_any(admins, pubkey) == TRUE

\* TestClient::is_admin
client_is_admin(admins, pubkey) == pubkey \in admins

\* The value sign_action returns on success: it looks at pending.last().
SignedEnough(pending) ==
    IF Len(pending) > 0
    THEN Len(pending[Len(pending)].signatures) >= required_signatures
    ELSE FALSE

BoolRes(b) == IF b THEN "Ok(true)" ELSE "Ok(false)"

\* A variant of sign_action in which a new signature replaces the ones
\* recorded so far.
sign_action_restarting(pending, admins, admin_key, action_type, description, signature) ==
    IF ~client_is_admin(admins, admin_key)
    THEN [res |-> "NotAnAdmin", pending |-> pending]
    ELSE LET i == Find(pending, action_type) IN
         IF i # 0
         THEN IF Contains(pending[i].signed_by, admin_key)
              THEN [res |-> "AdminAlreadySigned", pending |-> pending]
              ELSE LET after == [pending EXCEPT
                                   ![i].signatures = <<signature>>,
                                   ![i].signed_by = <<admin_key>>]
                   IN  [res |-> BoolRes(SignedEnough(after)), pending |-> after]
         ELSE LET after == Append(pending,
                               AdminAction(action_type, description,
                                           <<signature>>, <<admin_key>>))
              IN  [res |-> BoolRes(SignedEnough(after)), pending |-> after]

\* A variant of sign_action that records a second signature of one admin.
sign_action_resign(pending, admins, admin_key, action_type, description, signature) ==
    IF ~client_is_admin(admins, admin_key)
    THEN [res |-> "NotAnAdmin", pending |-> pending]
    ELSE LET i == Find(pending, action_type) IN
         IF i # 0
         THEN LET after == [pending EXCEPT
                              ![i].signatures = Append(@, signature),
                              ![i].signed_by = Append(@, admin_key)]
              IN  [res |-> BoolRes(SignedEnough(after)), pending |-> after]
         ELSE LET after == Append(pending,
                               AdminAction(action_type, description,
                                           <<signature>>, <<admin_key>>))
              IN  [res |-> BoolRes(SignedEnough(after)), pending |-> after]

\* A variant of sign_action that signs the oldest pending action whatever
\* its action_type.
sign_action_any_label(pending, admins, admin_key, action_type, description, signature) ==
    IF ~client_is_admin(admins, admin_key)
    THEN [res |-> "NotAnAdmin", pending |-> pending]
    ELSE LET i == IF Len(pending) > 0 THEN 1 ELSE 0 IN
         IF i # 0
         THEN IF Contains(pending[i].signed_by, admin_key)
              THEN [res |-> "AdminAlreadySigned", pending |-> pending]
              ELSE LET after == [pending EXCEPT
                                   ![i].signatures = Append(@, signature),
                                   ![i].signed_by = Append(@, admin_key)]
                   IN  [res |-> BoolRes(SignedEnough(after)), pending |-> after]
         ELSE LET after == Append(pending,
                               AdminAction(action_type, description,
                                           <<signature>>, <<admin_key>>))
              IN  [res |-> BoolRes(SignedEnough(after)), pending |-> after]

\* TestClient::sign_action: [res, pending]
sign_action(pending, admins, admin_key, action_type, description, signature) ==
    IF ~client_is_admin(admins, admin_key)
    THEN [res |-> "NotAnAdmin", pending |-> pending]
    ELSE LET i == Find(pending, action_type) IN
         IF i # 0
         THEN IF Contains(pending[i].signed_by, admin_key)
              THEN [res |-> "AdminAlreadySigned", pending |-> pending]
              ELSE LET after == [pending EXCEPT
                                   ![i].signatures = Append(@, signature),
                                   ![i].signed_by = Append(@, admin_key)]
                   IN  [res |-> BoolRes(SignedEnough(after)), pending |-> after]
         ELSE LET after == Append(pending,
                               AdminAction(action_type, description,
                                           <<signature>>, <<admin_key>>))
              IN  [res |-> BoolRes(SignedEnough(after)), pending |-> after]

\* The loop of verify_action over the provided signatures, from index i.
RECURSIVE AllRecorded(_, _, _)
AllRecorded(recorded, signatures, i) ==
    IF i > Len(signatures) THEN TRUE
    ELSE IF ~Contains(recorded, signatures[i]) THEN FALSE
    ELSE AllRecorded(recorded, signatures, i + 1)

\* A variant of verify_action that looks up the first provided signature only.
verify_action_first_only(pending, action_type, signatures) ==
    IF Len(signatures) < required_signatures THEN FALSE
    ELSE LET i == Find(pending, action_type) IN
         IF i # 0 THEN Contains(pending[i].signatures, signatures[1])
         ELSE FALSE

\* TestClient::verify_action
verify_action(pending, action_type, signatures) ==
    IF Len(signatures) < required_signatures THEN FALSE
    ELSE LET i == Find(pending, action_type) IN
         IF i # 0 THEN AllRecorded(pending[i].signatures, signatures, 1)
         ELSE FALSE

\* Pubkey::new_unique for the n-th admin: a key no account has yet.
NewAdminKey(admins) == Cardinality(admins) + 1

\* create_admin_account without the test of total_admins.
create_admin_account_unbounded(admins) ==
    [res |-> "Ok", admins |-> admins \cup {NewAdminKey(admins)},
     accounts_inserted |-> {NewAdminKey(admins)}]

\* TestClient::create_admin_account: [res, admins, accounts_inserted], the
\* last being the keys it adds to the client's accounts map.
create_admin_account(admins) ==
    IF Cardinality(admins) >= total_admins
    THEN [res |-> "MaxAdmins", admins |-> admins, accounts_inserted |-> {}]
    ELSE [res |-> "Ok", admins |-> admins \cup {NewAdminKey(admins)},
          accounts_inserted |-> {NewAdminKey(admins)}]

(***************************************************************************)
(* Inputs and bounds                                                       *)
(***************************************************************************)
\* Burns committed on one seeded state before the model stops burning.
MaxBurns == 1
\* Admin accounts created where only the authority's membership matters.
MaxAuthorities == 1
\* Admin accounts the multisig specifications create: as many as an action
\* needs signers.
MaxAdminsCreated == required_signatures
\* Signatures recorded over all pending actions in the multisig specification.
MaxRecorded == 4
\* Length of the signature lists handed to verify_action.
MaxProvided == 3

NavValues == {0, 49999, 50000, 1000000, 5000000, 5000001,
              21000000, 41000000, 41000001, 42000000}
SeedNavs == {0, 1000000}
SeedSupplies == {7, 1000, 1000000}
PaymentValues == {0, 151, 100000, 100001}
BurnNavs == {50000, 5000001}
\* The supply and the payments of tests::test_buyback_burn.
TestSupply == 1000000
TestPayments == {0, 100000, 100001}

\* The contexts a handler is called with: every setting of the two flags when
\* the account list is long enough, and a list one account short.  `auth` is
\* the set of <<authority_key, has_test_client>> pairs.
Contexts(needed, auth) ==
    {[n_accounts |-> n, state_writable |-> w, authority_signer |-> g,
      authority_key |-> a[1], has_test_client |-> a[2]] :
        n \in {needed}, w \in BOOLEAN, g \in BOOLEAN, a \in auth}
    \cup {[n_accounts |-> needed - 1, state_writable |-> TRUE,
           authority_signer |-> TRUE, authority_key |-> a[1],
           has_test_client |-> a[2]] : a \in auth}

\* The first admin behind a TestClient; it alone where membership is not read.
AdminAuthority == {<<1, TRUE>>}
\* ... and key 0 (admins get 1, 2, ... in creation order, so 0 is the key of
\* an account that is no admin), and a context with no TestClient.
Authorities == {<<1, TRUE>>, <<0, TRUE>>, <<1, FALSE>>}

InstructionData(tag, arg) == [tag |-> tag, arg |-> arg, extra |-> 0]

NoValue == 0 - 1
\* The record of a call: pre_nav and pre_supply are NoValue when the account
\* held no OVTState image, and for the calls that do not touch the account.
Call(op, res, pre_nav, pre_supply) ==
    [op |-> op, res |-> res, pre_nav |-> pre_nav, pre_supply |-> pre_supply]
NoCall == Call("none", "none", NoValue, NoValue)

Readable(acct) == get_data(acct).ok
NavOf(acct) == IF Readable(acct) THEN get_data(acct).val.nav_sats ELSE NoValue
SupplyOf(acct) == IF Readable(acct) THEN get_data(acct).val.total_supply ELSE NoValue

(***************************************************************************)
(* The UTXO payment verifier (two snapshots)                               *)
(***************************************************************************)
\* A UTXO account as the verifier sees it: the script that owns the output,
\* its value, and the confirmation count of UtxoMeta.
UtxoInfo(script, value, confirmations) ==
    [script_pubkey |-> script, value |-> value, confirmations |-> confirmations]

\* BitcoinPayment: what an accepted claim is turned into.
BitcoinPayment(utxo) == [amount_sats |-> utxo.value, utxo |-> utxo]
NoBitcoinPayment == [amount_sats |-> NoValue, utxo |-> NoValue]

Verified(res, pay) == [res |-> res, payment |-> pay]

\* The amount compared before the owner.
verify_bitcoin_payment_amount_first(utxo_info, expected_amount, treasury_pubkey) ==
    LET utxo == utxo_info IN
    IF utxo.value < expected_amount
        THEN Verified("InsufficientFunds", NoBitcoinPayment)
    ELSE IF utxo.script_pubkey # treasury_pubkey
        THEN Verified("InvalidBitcoinPayment", NoBitcoinPayment)
    ELSE Verified("Ok", BitcoinPayment(utxo))

\* src/ovt-program: the owning script first, then the amount; the
\* confirmation count is not read.
verify_bitcoin_payment(utxo_info, expected_amount, treasury_pubkey) ==
    LET utxo == utxo_info IN
    IF utxo.script_pubkey # treasury_pubkey
        THEN Verified("InvalidBitcoinPayment", NoBitcoinPayment)
    ELSE IF utxo.value < expected_amount
        THEN Verified("InsufficientFunds", NoBitcoinPayment)
    ELSE Verified("Ok", BitcoinPayment(utxo))

\* src/program: the mock of the same function returns Ok(()) whatever it
\* is given; process_buyback_burn does not call it.
mock_verify_bitcoin_payment(utxo_info, expected_amount, treasury_pubkey) ==
    Verified("Ok", NoBitcoinPayment)

\* One application of the verifier, as recorded in the variable verification.
Applied(utxo_info, expected_amount, treasury_pubkey, out, mock) ==
    [utxo_info |-> utxo_info, expected_amount |-> expected_amount,
     treasury_pubkey |-> treasury_pubkey, res |-> out.res,
     payment |-> out.payment, mock_res |-> mock.res]
NoVerification == [utxo_info |-> NoValue, expected_amount |-> NoValue,
                    treasury_pubkey |-> NoValue, res |-> "none",
                   payment |-> NoBitcoinPayment, mock_res |-> "none"]

(***************************************************************************)
(* RunesClient: the 3-of-5 checks of the mint path                         *)
(***************************************************************************)
\* mint_tokens without the test of the number of admin keys.
mint_tokens_any_keys(signatures, admin_pubkeys) ==
    IF Len(signatures) < 3 THEN "InsufficientSignatures"
    ELSE "Ok"

\* src/program RunesClient::mint_tokens
mint_tokens(signatures, admin_pubkeys) ==
    IF Len(signatures) < 3 THEN "InsufficientSignatures"
    ELSE IF Len(admin_pubkeys) # 5 THEN "InvalidAdminKeys"
    ELSE "Ok"

\* src/program RunesClient::verify_admin_multisig
verify_admin_multisig(signatures, admin_pubkeys) ==
    IF Len(signatures) < 3 THEN "InsufficientSignatures"
    ELSE IF Len(admin_pubkeys) # 5 THEN "InvalidAdminKeys"
    ELSE "Ok"

\* src/ovt-program RunesClient::verify_mint_authorization: the keys first.
verify_mint_authorization(signatures, admin_pubkeys) ==
    IF Len(admin_pubkeys) # 5 THEN "Invalid number of admin pubkeys"
    ELSE IF Len(signatures) < 3 THEN "Insufficient signatures"
    ELSE "Ok"

Authorization(fn, signatures, admin_pubkeys, res) ==
    [fn |-> fn, signatures |-> signatures, admin_pubkeys |-> admin_pubkeys,
     res |-> res]
NoAuthorization == Authorization("none", <<>>, <<>>, "none")

(***************************************************************************)
(* RunesClient::make_request (src/ovt-program)                             *)
(***************************************************************************)
\* Cache keys, and the absent Option.
CacheKeys == {"key_a", "key_b"}
None == "None"
\* Bodies execute_request returns, and the errors it fails with.
Bodies == {"json_a", "json_b", "not_json"}
RequestErrors == {"err_a", "err_b"}
\* What one execute_request can do.
Attempts == [ok : {TRUE}, v : Bodies] \cup [ok : {FALSE}, v : RequestErrors]

\* The number of tries the loop starts with.
retries == 3

\* serde_json::from_slice on a body.
\* What make_request returns: a decoded value or an error.
Returned(ok, v) == [ok |-> ok, v |-> v]

from_slice(body) ==
    IF body = "not_json" THEN Returned(FALSE, "decode") ELSE Returned(TRUE, body)

EmptyCache == [k \in CacheKeys |-> None]

\* A make_request call: its arguments, its local variables, the outcomes of
\* the execute_request calls it has made, and what it returned.
Request(pc, cache_key, cache_ttl, tries, last_error, attempts, ret) ==
    [pc |-> pc, cache_key |-> cache_key, cache_ttl |-> cache_ttl,
     retries |-> tries, last_error |-> last_error, attempts |-> attempts,
     ret |-> ret]
NoRequest == Request("idle", None, None, 0, None, <<>>, Returned(FALSE, None))

\* make_request up to the loop: a valid cache entry is returned at once,
\* `valid` being entry.is_valid(ttl) at the time of the call.
make_request(store, cache_key, cache_ttl, valid) ==
    IF /\ cache_key # None /\ cache_ttl # None
       /\ store[cache_key] # None /\ valid
    THEN Request("returned", cache_key, cache_ttl, 0, None, <<>>,
                 from_slice(store[cache_key]))
    ELSE Request("loop", cache_key, cache_ttl, retries, None, <<>>,
                 Returned(FALSE, None))

\* A variant of one pass of the loop that caches whenever a key is given and
\* tries again after a success.
attempt_eager(store, req, got) ==
    IF got.ok
    THEN [cache |-> IF req.cache_key # None
                    THEN [store EXCEPT ![req.cache_key] = got.v]
                    ELSE store,
          request |-> [req EXCEPT !.attempts = Append(@, got),
                                  !.retries = @ - 1,
                                  !.pc = IF req.retries - 1 > 0 THEN "loop" ELSE "returned",
                                  !.ret = from_slice(got.v)]]
    ELSE [cache |-> store,
          request |-> [req EXCEPT !.attempts = Append(@, got),
                                  !.last_error = got.v,
                                  !.retries = @ - 1,
                                  !.pc = IF req.retries - 1 > 0 THEN "loop" ELSE "returned",
                                  !.ret = IF req.retries - 1 > 0 THEN @ ELSE Returned(FALSE, got.v)]]

\* One pass of the while loop of make_request, execute_request having given
\* `got`: [cache, request].  The pass that uses up the last try leaves the
\* loop and returns the last error.
attempt(store, req, got) ==
    IF got.ok
    THEN [cache |-> IF req.cache_key # None /\ req.cache_ttl # None
                    THEN [store EXCEPT ![req.cache_key] = got.v]
                    ELSE store,
          request |-> [req EXCEPT !.attempts = Append(@, got),
                                  !.pc = "returned",
                                  !.ret = from_slice(got.v)]]
    ELSE [cache |-> store,
          request |-> [req EXCEPT !.attempts = Append(@, got),
                                  !.last_error = got.v,
                                  !.retries = @ - 1,
                                  !.pc = IF req.retries - 1 > 0 THEN "loop" ELSE "returned",
                                  !.ret = IF req.retries - 1 > 0 THEN @ ELSE Returned(FALSE, got.v)]]

\* AccountInfo::new: no data, owned by the zero key.
NewAccountInfo == [data |-> Bytes(ZERO_STATE, 0), owner |-> ZeroPubkey]
\* TestClient::create_account: 1 KB of zeros, owned by the program.
CreatedAccount == [data |-> Bytes(ZERO_STATE, DEFAULT_SPACE), owner |-> ProgramId]

Init ==
    /\ state_account \in {NewAccountInfo, CreatedAccount}
    /\ cfg_test \in BOOLEAN
    /\ admin_accounts = {}
    /\ pending_actions = <<>>
    /\ last = NoCall
    /\ burns = 0
    /\ genesis = NoValue
    /\ scenario = 0
    /\ verification = NoVerification
    /\ authorization = NoAuthorization
    /\ computation = NoComputation
    /\ cache = EmptyCache
    /\ request = NoRequest

(***************************************************************************)
(* Steps of the program                                                    *)
(***************************************************************************)
OpName(data) ==
    IF ~Decodes(data) THEN "Malformed"
    ELSE IF data.tag = 0 THEN "Initialize"
    ELSE IF data.tag = 1 THEN "UpdateNAV"
    ELSE "BuybackBurn"

Outcome(ctx, data) ==
    process_instruction(state_account, ctx, admin_accounts, cfg_test, data)

\* The history variables where they play no part.
HistoryKept(ctx, data, res) == UNCHANGED <<genesis, scenario>>

\* The NAV updates of tests::test_nav_validation, in order after Initialize.
ScenarioNavs == <<1000000, 21000000, 42000000>>

\* The call names the state account and a signing authority, and may write.
WellFormed(ctx) == ctx.n_accounts >= 2 /\ ctx.authority_signer /\ ctx.state_writable

TrackHistory(ctx, data, res) ==
    /\ genesis' = IF OpName(data) = "Initialize" /\ res = "Ok" THEN NoValue
                  ELSE IF OpName(data) = "UpdateNAV" /\ res = "Ok"
                          /\ genesis = NoValue
                       THEN data.arg
                  ELSE genesis
    /\ scenario' = IF OpName(data) = "Initialize"
                   THEN (IF res = "Ok" THEN 1 ELSE 0)
                   ELSE IF /\ OpName(data) = "UpdateNAV"
                           /\ WellFormed(ctx)
                           /\ scenario \in 1..Len(ScenarioNavs)
                           /\ data.arg = ScenarioNavs[scenario]
                        THEN scenario + 1
                   ELSE 0

\* One call of OVTProgram::process_instruction on the state account; `track`
\* says whether the history variables follow the call.
Dispatch(ctx, data, track) ==
    LET out == Outcome(ctx, data) IN
    /\ state_account' = out.acct
    /\ last' = Call(OpName(data), out.res, NavOf(state_account), SupplyOf(state_account))
    /\ burns' = IF OpName(data) = "Initialize" /\ out.res = "Ok" THEN 0
                ELSE IF OpName(data) = "BuybackBurn" /\ out.res = "Ok"
                     THEN burns + 1
                ELSE burns
    /\ IF track THEN TrackHistory(ctx, data, out.res)
                ELSE HistoryKept(ctx, data, out.res)
    /\ UNCHANGED <<cfg_test, admin_accounts, pending_actions, verification,
                   authorization, computation, cache, request>>

InitializeCalls == Contexts(3, AdminAuthority) \X {InstructionData(0, k) : k \in TreasuryKeys}
UpdateNAVCalls(navs) == Contexts(2, AdminAuthority) \X {InstructionData(1, v) : v \in navs}
BuybackBurnCalls(payments) ==
    Contexts(2, Authorities) \X {InstructionData(2, p) : p \in payments}
MalformedCalls ==
    Contexts(2, AdminAuthority) \X {[tag |-> 3, arg |-> 0, extra |-> 0],
                                    [tag |-> 1, arg |-> 1000000, extra |-> 1]}

\* Payloads try_from_slice refuses: an unknown variant index, a variant cut
\* short (extra < 0) and a variant followed by further bytes (extra > 0).
MalformedPayloads ==
    {[tag |-> 3, arg |-> 0, extra |-> 0]}
    \cup {[tag |-> 0, arg |-> k, extra |-> e] : k \in TreasuryKeys, e \in {0 - 1, 1}}
    \cup {[tag |-> t, arg |-> a, extra |-> e] :
              t \in {1, 2}, a \in {100000, 1000000}, e \in {0 - 1, 1}}

InitializeStep(track) == \E c \in InitializeCalls :
    /\ OpName(c[2]) = "Initialize"
    /\ Dispatch(c[1], c[2], track)

UpdateNAVStep(navs, track) == \E c \in UpdateNAVCalls(navs) :
    /\ OpName(c[2]) = "UpdateNAV"
    /\ Dispatch(c[1], c[2], track)

BuybackBurnStep(payments, track) == \E c \in BuybackBurnCalls(payments) :
    /\ burns < MaxBurns
    /\ Dispatch(c[1], c[2], track)

MalformedStep(track) == \E c \in MalformedCalls :
    /\ OpName(c[2]) = "Malformed"
    /\ Dispatch(c[1], c[2], track)

\* The tests' set-up write: set_data(&state) on the stored state account
\* (writable there), with the NAV and supply tracked outside the program.
SeedStateStep(navs, supplies) ==
    \E nav \in navs, supply \in supplies, key \in TreasuryKeys :
    /\ state_account' = set_data(state_account, TRUE, OVTState(nav, key, supply, 0)).acct
    /\ last' = Call("SeedState", "Ok", NavOf(state_account), SupplyOf(state_account))
    /\ burns' = 0
    /\ UNCHANGED <<cfg_test, admin_accounts, pending_actions, genesis, scenario,
                   verification,
                   authorization, computation, cache, request>>

CreateAdminAccountStep(max_created) ==
    LET out == create_admin_account(admin_accounts) IN
    /\ Cardinality(admin_accounts) < max_created
    /\ admin_accounts' = out.admins
    /\ last' = Call("create_admin_account", out.res, NoValue, NoValue)
    /\ UNCHANGED <<state_account, cfg_test, pending_actions, burns,
                   genesis, scenario, verification,
                   authorization, computation, cache, request>>

(***************************************************************************)
(* Spec: the instruction state machine with the NAV values of the policy.  *)
(***************************************************************************)
Initialize == InitializeStep(FALSE)
UpdateNAV == UpdateNAVStep(NavValues, FALSE)
BuybackBurn == BuybackBurnStep(TestPayments, FALSE)
Malformed == MalformedStep(FALSE)
SeedState == SeedStateStep({INITIAL_NAV}, {TestSupply})
CreateAdminAccount == CreateAdminAccountStep(MaxAuthorities)

Next == Initialize \/ UpdateNAV \/ BuybackBurn \/ Malformed \/ SeedState
        \/ CreateAdminAccount

Spec == Init /\ [][Next]_vars

(***************************************************************************)
(* BurnSpec: the same machine with more supplies and payments, fewer NAVs. *)
(***************************************************************************)
BurnInitialize == InitializeStep(FALSE)
BurnUpdateNAV == UpdateNAVStep(BurnNavs, FALSE)
BurnBuybackBurn == BuybackBurnStep(PaymentValues, FALSE)
BurnSeedState == SeedStateStep(SeedNavs, SeedSupplies)
BurnCreateAdminAccount == CreateAdminAccountStep(MaxAuthorities)

BurnNext == BurnInitialize \/ BurnUpdateNAV \/ BurnBuybackBurn \/ BurnSeedState
            \/ BurnCreateAdminAccount

BurnSpec == Init /\ [][BurnNext]_vars

(***************************************************************************)
(* ScenarioSpec: instructions only, from a fresh account, with the history *)
(* variables following the calls.                                          *)
(***************************************************************************)
ScInitialize == InitializeStep(TRUE)
ScUpdateNAV == UpdateNAVStep(NavValues, TRUE)
ScBuybackBurn == BuybackBurnStep({100000}, TRUE)
ScMalformed == MalformedStep(TRUE)

ScenarioNext == ScInitialize \/ ScUpdateNAV \/ ScBuybackBurn \/ ScMalformed

ScenarioSpec == Init /\ [][ScenarioNext]_vars

(***************************************************************************)
(* MultisigSpec: the TestClient bookkeeping alone.                         *)
(***************************************************************************)
ActionTypes == {"update_nav", "buyback_burn"}
Descriptions == {"Update NAV"}
Signatures == {"sig_0", "sig_1"}

SeqsUpTo(S, n) == UNION {[1..k -> S] : k \in 0..n}

RECURSIVE TotalRecorded(_)
TotalRecorded(pending) ==
    IF pending = <<>> THEN 0
    ELSE Len(Head(pending).signatures) + TotalRecorded(Tail(pending))

SignActionStep(keys, types, descs, sigs) ==
    \E k \in keys, t \in types, d \in descs, g \in sigs :
    LET out == sign_action(pending_actions, admin_accounts, k, t, d, g) IN
    /\ TotalRecorded(pending_actions) < MaxRecorded
    /\ pending_actions' = out.pending
    /\ last' = Call("sign_action", out.res, NoValue, NoValue)
    /\ UNCHANGED <<state_account, cfg_test, admin_accounts, burns,
                   genesis, scenario, verification,
                   authorization, computation, cache, request>>

VerifyActionStep(types, provided) ==
    \E t \in types, g \in provided :
    /\ last' = Call("verify_action",
                     BoolRes(verify_action(pending_actions, t, g)), NoValue, NoValue)
    /\ UNCHANGED <<state_account, cfg_test, admin_accounts, pending_actions,
                   burns, genesis, scenario, verification,
                   authorization, computation, cache, request>>

SignerKeys == 0..MaxAdminsCreated

\* The signature lists handed to verify_action: recorded and forged entries.
ProvidedLists == SeqsUpTo(Signatures \cup {"forged"}, MaxProvided)

MsCreateAdminAccount == CreateAdminAccountStep(MaxAdminsCreated)
MsSignAction == SignActionStep(SignerKeys, ActionTypes, Descriptions, Signatures)
MsVerifyAction == VerifyActionStep(ActionTypes, ProvidedLists)

MultisigNext == MsCreateAdminAccount \/ MsSignAction \/ MsVerifyAction

\* The bookkeeping does not read the state account or the build.
MsInit == Init /\ state_account = CreatedAccount /\ cfg_test

MultisigSpec == MsInit /\ [][MultisigNext]_vars

(***************************************************************************)
(* LabelSpec: admins signing pending actions of two labels in any order.   *)
(***************************************************************************)
LbCreateAdminAccount == CreateAdminAccountStep(MaxAdminsCreated)
LbSignAction == SignActionStep(SignerKeys, ActionTypes, Descriptions, {"sig_0"})

LabelNext == LbCreateAdminAccount \/ LbSignAction

LabelSpec == MsInit /\ [][LabelNext]_vars

(***************************************************************************)
(* DescriptionSpec: actions of one label signed under two descriptions.    *)
(***************************************************************************)
TwoDescriptions == {"Update NAV", "Raise NAV"}

DeCreateAdminAccount == CreateAdminAccountStep(MaxAdminsCreated)
DeSignAction == SignActionStep(SignerKeys, ActionTypes, TwoDescriptions, {"sig_0"})

DescriptionNext == DeCreateAdminAccount \/ DeSignAction

DescriptionSpec == MsInit /\ [][DescriptionNext]_vars

(***************************************************************************)
(* RequestSpec: make_request calls on one client, one at a time, each      *)
(* awaited to its return.                                                  *)
(***************************************************************************)
RequestUnchanged ==
    UNCHANGED <<state_account, cfg_test, admin_accounts, pending_actions,
                burns, genesis, scenario, verification, authorization,
                computation>>

MakeRequestStep ==
    \E cache_key \in CacheKeys \cup {None}, cache_ttl \in {None, "ttl"},
       valid \in BOOLEAN :
    /\ request.pc \in {"idle", "returned"}
    /\ request' = make_request(cache, cache_key, cache_ttl, valid)
    /\ last' = Call("make_request", "called", NoValue, NoValue)
    /\ UNCHANGED cache
    /\ RequestUnchanged

ExecuteRequestStep ==
    \E got \in Attempts :
    LET out == attempt(cache, request, got) IN
    /\ request.pc = "loop"
    /\ request.retries > 0
    /\ cache' = out.cache
    /\ request' = out.request
    /\ last' = Call("execute_request", IF got.ok THEN "Ok" ELSE "Err",
                     NoValue, NoValue)
    /\ RequestUnchanged

ReMakeRequest == MakeRequestStep
ReExecuteRequest == ExecuteRequestStep

RequestNext == ReMakeRequest \/ ReExecuteRequest

\* The caller awaits the call: a pass of the loop that can run does run.
RequestSpec == MsInit /\ [][RequestNext]_vars /\ WF_vars(ReExecuteRequest)

(***************************************************************************)
(* AuthSpec: signing and privileged instructions together, on few values.  *)
(***************************************************************************)
AuUpdateNAV == UpdateNAVStep({1000000, 21000000}, FALSE)
AuBuybackBurn == BuybackBurnStep({100000}, FALSE)
AuSeedState == SeedStateStep({INITIAL_NAV}, {TestSupply})
AuCreateAdminAccount == CreateAdminAccountStep(MaxAdminsCreated)
AuSignAction == SignActionStep(1..MaxAdminsCreated, {"update_nav"}, Descriptions, {"sig_0"})

AuthNext == AuUpdateNAV \/ AuBuybackBurn \/ AuSeedState
            \/ AuCreateAdminAccount \/ AuSignAction

AuthSpec == Init /\ [][AuthNext]_vars

(***************************************************************************)
(* ClientSpec: instructions sent through TestClient::process_transaction.  *)
(* Here state_account is the state account kept in the client's accounts   *)
(* map.  Both harnesses hand the program AccountInfo values built with     *)
(* account.data.clone(): RefCell<Vec<u8>>::clone copies the bytes, so the  *)
(* program writes to a copy.                                               *)
(***************************************************************************)
NoReturn == "NoReturn"

\* src/program TestClient::process_transaction.  The guard account_map of
\* self.accounts.lock() lives to the end of the function; on Ok the
\* function locks self.accounts again on the same thread, which deadlocks
\* or panics: it does not return, and the copy-back loop is not entered.
\* On Err it returns the error and leaves the map alone.
process_transaction(accounts, ctx, admins, test_build, data) ==
    LET ctx_accounts == accounts
        result == process_instruction(ctx_accounts,
                      [ctx EXCEPT !.has_test_client = TRUE], admins, test_build, data)
    IN  IF result.res = "Ok" THEN Return(NoReturn, accounts)
        ELSE Return(result.res, accounts)

\* src/ovt-program TestClient::process_transaction: builds the context from
\* copies and returns the program's result; nothing is copied back.  The
\* instructions its tests send (Initialize{treasury_pubkey_bytes},
\* UpdateNAV{btc_price_sats}) are those of OVTProgram in src/program.
ovt_process_transaction(accounts, ctx, admins, test_build, data) ==
    LET program_context == [ctx EXCEPT !.has_test_client = FALSE]
        result == process_instruction(accounts, program_context, admins, test_build, data)
    IN  Return(result.res, accounts)

\* TestClient::get_account_data
get_account_data(accounts) == get_data(accounts)

ClientCalls == InitializeCalls \cup UpdateNAVCalls(NavValues)

ProcessTransactionOf(calls) == \E c \in calls :
    LET out == process_transaction(state_account, c[1], admin_accounts, cfg_test, c[2]) IN
    /\ state_account' = out.acct
    /\ last' = Call("process_transaction", out.res,
                    NavOf(state_account), SupplyOf(state_account))
    /\ UNCHANGED <<cfg_test, admin_accounts, pending_actions, burns,
                   genesis, scenario, verification,
                   authorization, computation, cache, request>>

ProcessTransactionStep == ProcessTransactionOf(ClientCalls)

OvtProcessTransactionStep == \E c \in ClientCalls :
    LET out == ovt_process_transaction(state_account, c[1], admin_accounts, cfg_test, c[2]) IN
    /\ state_account' = out.acct
    /\ last' = Call("ovt_process_transaction", out.res,
                    NavOf(state_account), SupplyOf(state_account))
    /\ UNCHANGED <<cfg_test, admin_accounts, pending_actions, burns,
                   genesis, scenario, verification,
                   authorization, computation, cache, request>>

ClProcessTransaction == ProcessTransactionStep
ClOvtProcessTransaction == OvtProcessTransactionStep
ClSeedState == SeedStateStep(SeedNavs, SeedSupplies)

ClientNext == ClProcessTransaction \/ ClOvtProcessTransaction \/ ClSeedState

ClientSpec == Init /\ [][ClientNext]_vars

(***************************************************************************)
(* QuorumSpec: an action signed and verified while the instruction it is   *)
(* for, and others, are executed directly and through the client.          *)
(***************************************************************************)
QuCreateAdminAccount == CreateAdminAccountStep(MaxAdminsCreated)
QuSignAction ==
    SignActionStep(1..MaxAdminsCreated, {"update_nav"}, Descriptions, Signatures)
QuorumLists == [1..required_signatures -> Signatures]
QuVerifyAction == VerifyActionStep({"update_nav"}, QuorumLists)
QuInitialize == InitializeStep(FALSE)
QuUpdateNAV == UpdateNAVStep({INITIAL_NAV}, FALSE)
QuProcessTransaction == ProcessTransactionOf(UpdateNAVCalls({INITIAL_NAV}))

QuorumNext == QuCreateAdminAccount \/ QuSignAction \/ QuVerifyAction
              \/ QuInitialize \/ QuUpdateNAV \/ QuProcessTransaction

QuorumSpec == MsInit /\ [][QuorumNext]_vars

(***************************************************************************)
(* AdminSpec: the admin set filled up to total_admins and beyond, with     *)
(* signing and burning in between.                                         *)
(***************************************************************************)
AdCreateAdminAccount == CreateAdminAccountStep(total_admins + 1)
AdSignAction == SignActionStep(0..total_admins, {"update_nav"}, Descriptions, {"sig_0"})
AdVerifyAction == VerifyActionStep({"update_nav"}, {<<"sig_0", "sig_0", "sig_0">>})
AdBuybackBurn == BuybackBurnStep({100000}, FALSE)

AdminNext == AdCreateAdminAccount \/ AdSignAction \/ AdVerifyAction \/ AdBuybackBurn

AdminSpec == MsInit /\ [][AdminNext]_vars

(***************************************************************************)
(* WidthSpec: the burn computation on operands up to u64::MAX.  The        *)
(* initial states hold the operands, the one step carries it out.          *)
(***************************************************************************)
WidePayments == {FromInt(1), FromInt(100000), Pow2(32), Pow2(63), U64_MAX}
WideSupplies == {FromInt(1), FromInt(1000000), Pow2(32), Pow2(63), U64_MAX}
WideNavs == {FromInt(1), FromInt(3), FromInt(1000000), Pow2(32), U64_MAX}

WidthInit ==
    /\ state_account = CreatedAccount
    /\ cfg_test = TRUE
    /\ admin_accounts = {}
    /\ pending_actions = <<>>
    /\ last = NoCall
    /\ burns = 0
    /\ genesis = NoValue
    /\ scenario = 0
    /\ verification = NoVerification
    /\ authorization = NoAuthorization
    /\ computation \in {Computation(p, s, n, "pending", <<>>) :
                            p \in WidePayments, s \in WideSupplies, n \in WideNavs}
    /\ cache = EmptyCache
    /\ request = NoRequest

BurnComputationStep ==
    LET out == burn_new_supply(computation.payment, computation.supply,
                               computation.nav) IN
    /\ computation.res = "pending"
    /\ computation' = [computation EXCEPT !.res = out.res,
                                          !.new_supply = out.new_supply]
    /\ last' = Call("burn_new_supply", out.res, NoValue, NoValue)
    /\ UNCHANGED <<state_account, cfg_test, admin_accounts, pending_actions,
                   burns, genesis, scenario, verification, authorization,
                   cache, request>>

WiBurnComputation == BurnComputationStep

WidthNext == WiBurnComputation

WidthSpec == WidthInit /\ [][WidthNext]_vars

(***************************************************************************)
(* RunesSpec: the RunesClient checks applied to signature and key lists.   *)
(***************************************************************************)
MaxSignatures == 4
MaxAdminKeys == 6
SignatureLists == {[i \in 1..n |-> "sig"] : n \in 0..MaxSignatures}
AdminKeyLists == {[i \in 1..n |-> i] : n \in 0..MaxAdminKeys}

RunesUnchanged ==
    UNCHANGED <<state_account, cfg_test, admin_accounts, pending_actions,
                burns, genesis, scenario, verification, computation,
                cache, request>>

MintTokensStep ==
    \E signatures \in SignatureLists, admin_pubkeys \in AdminKeyLists :
    /\ authorization' = Authorization("mint_tokens", signatures, admin_pubkeys,
                             mint_tokens(signatures, admin_pubkeys))
    /\ last' = Call("mint_tokens", authorization'.res, NoValue, NoValue)
    /\ RunesUnchanged

VerifyAdminMultisigStep ==
    \E signatures \in SignatureLists, admin_pubkeys \in AdminKeyLists :
    /\ authorization' = Authorization("verify_admin_multisig", signatures, admin_pubkeys,
                             verify_admin_multisig(signatures, admin_pubkeys))
    /\ last' = Call("verify_admin_multisig", authorization'.res, NoValue, NoValue)
    /\ RunesUnchanged

VerifyMintAuthorizationStep ==
    \E signatures \in SignatureLists, admin_pubkeys \in AdminKeyLists :
    /\ authorization' = Authorization("verify_mint_authorization", signatures,
                             admin_pubkeys,
                             verify_mint_authorization(signatures, admin_pubkeys))
    /\ last' = Call("verify_mint_authorization", authorization'.res, NoValue, NoValue)
    /\ RunesUnchanged

RuMintTokens == MintTokensStep
RuVerifyAdminMultisig == VerifyAdminMultisigStep
RuVerifyMintAuthorization == VerifyMintAuthorizationStep

RunesNext == RuMintTokens \/ RuVerifyAdminMultisig \/ RuVerifyMintAuthorization

RunesSpec == Init /\ [][RunesNext]_vars

(***************************************************************************)
(* UtxoSpec: the payment verifier applied to every claim of a small set.   *)
(***************************************************************************)
MaxConfirmations == 1
OtherScript == "other_script"
ClaimScripts == TreasuryKeys \cup {OtherScript}
ClaimValues == {0, 99999, 100000, 100001}
ClaimConfirmations == {0, MaxConfirmations}
ExpectedAmounts == {0, 100000, 100001}
UtxoClaims ==
    {UtxoInfo(s, v, n) : s \in ClaimScripts, v \in ClaimValues, n \in ClaimConfirmations}

VerifyBitcoinPaymentStep ==
    \E utxo_info \in UtxoClaims, expected_amount \in ExpectedAmounts,
       treasury_pubkey \in TreasuryKeys :
    /\ verification' = Applied(utxo_info, expected_amount, treasury_pubkey,
                       verify_bitcoin_payment(utxo_info, expected_amount, treasury_pubkey),
                       mock_verify_bitcoin_payment(utxo_info, expected_amount, treasury_pubkey))
    /\ last' = Call("verify_bitcoin_payment", verification'.res, NoValue, NoValue)
    /\ UNCHANGED <<state_account, cfg_test, admin_accounts, pending_actions,
                   burns, genesis, scenario, authorization, computation, cache, request>>

UtxoVerifyBitcoinPayment == VerifyBitcoinPaymentStep

UtxoNext == UtxoVerifyBitcoinPayment

UtxoSpec == Init /\ [][UtxoNext]_vars

(***************************************************************************)
(* Properties of the instruction handlers                                  *)
(***************************************************************************)
Instructions == {"Initialize", "UpdateNAV", "BuybackBurn"}

\* The OVTState the state account holds (ZERO_STATE when it holds none).
Stored == get_data(state_account).val

\* new/1_000_000 lies in [0.05, 41.0], written on the values themselves.
InPolicyWindow(new) == new >= 50000 /\ new <= 41000000

\* new/old lies in [0.2, 5.0].
InStepWindow(old, new) == 5 * new >= old /\ new <= 5 * old

\* C1: whenever Initialize, UpdateNAV or BuybackBurn returns an error, the
\* state account (data and owner), the admin set and the pending actions are
\* what they were before the call.
C1_RejectedCallLeavesNoTrace ==
    [][(last'.op \in Instructions /\ last'.res # "Ok")
          => /\ state_account' = state_account
             /\ admin_accounts' = admin_accounts
             /\ pending_actions' = pending_actions]_vars

C3_GenesisBound ==
    \A c \in UpdateNAVCalls(NavValues) :
        LET out == Outcome(c[1], c[2])
            new == c[2].arg
            inside == 20 * new >= genesis /\ new <= 41 * genesis IN
        (genesis > 0 /\ WellFormed(c[1]) /\ Readable(state_account))
            => /\ inside => out.res = "Ok"
               /\ ~inside => out.res = "InvalidNAVUpdate"

\* C4: after Initialize, UpdateNAV(1_000_000) and UpdateNAV(21_000_000)
\* succeed and UpdateNAV(42_000_000) fails, leaving nav_sats at 21_000_000.
C4_NavScenario ==
    /\ scenario = 2 => /\ last.op = "UpdateNAV" /\ last.res = "Ok"
                       /\ NavOf(state_account) = 1000000
    /\ scenario = 3 => /\ last.op = "UpdateNAV" /\ last.res = "Ok"
                       /\ last.pre_nav = 1000000
                       /\ NavOf(state_account) = 21000000
    /\ scenario = 4 => /\ last.op = "UpdateNAV" /\ last.res = "InvalidNAVUpdate"
                       /\ last.pre_nav = 21000000
                       /\ NavOf(state_account) = 21000000

\* The three updates of the scenario have been made, in order.
C4_Witness == scenario = 4 /\ last.op = "UpdateNAV"

C6_SupplyChangeBounded ==
    (/\ last.op \in Instructions /\ last.res = "Ok"
     /\ last.pre_supply > 0
     /\ SupplyOf(state_account) # last.pre_supply)
        => /\ 10 * SupplyOf(state_account) >= 9 * last.pre_supply
           /\ 10 * SupplyOf(state_account) <= 11 * last.pre_supply

\* The largest integer TLC computes with.
MaxInt == 2 * 1073741823 + 1

\* floor(payment * supply / nav) by plain arithmetic, where the product or a
\* cancelled form of it stays within MaxInt.
HasPlainQuotient(payment, supply, nav) ==
    \/ supply % nav = 0 /\ (supply = 0 \/ payment <= MaxInt \div (supply \div nav))
    \/ supply = 0
    \/ payment <= MaxInt \div supply
PlainQuotient(payment, supply, nav) ==
    IF supply % nav = 0 THEN payment * (supply \div nav)
    ELSE (payment * supply) \div nav

\* C7: a successful BuybackBurn(payment) on a state with nav_sats > 0 sets
\* total_supply to total_supply - floor(payment * total_supply / nav_sats).
C7_BurnAmount ==
    \A c \in BuybackBurnCalls(PaymentValues) :
        LET out == Outcome(c[1], c[2])
            payment == c[2].arg
            supply == SupplyOf(state_account)
            nav == NavOf(state_account) IN
        (out.res = "Ok" /\ nav > 0 /\ HasPlainQuotient(payment, supply, nav))
            => SupplyOf(out.acct) = supply - PlainQuotient(payment, supply, nav)

\* A burn of 151 sats at a NAV of 50_000 took 3 of 1_000 tokens (3.02 floored).
C7_Witness ==
    /\ last.op = "BuybackBurn" /\ last.res = "Ok"
    /\ last.pre_nav = 50000 /\ last.pre_supply = 1000
    /\ SupplyOf(state_account) = 997

\* C8: BuybackBurn(100_000) on total_supply = 1_000_000 and nav_sats =
\* 1_000_000, with a valid treasury key and a signing admin authority, is
\* accepted and leaves total_supply = 900_000.
C8_TenPercentBurn ==
    (/\ Readable(state_account)
     /\ Stored.nav_sats = 1000000 /\ Stored.total_supply = 1000000
     /\ Stored.treasury_pubkey_bytes = GeneratedKey)
        => \A c \in BuybackBurnCalls({100000}) :
               LET out == Outcome(c[1], c[2]) IN
               (WellFormed(c[1]) /\ is_admin(c[1], admin_accounts))
                   => /\ out.res = "Ok"
                      /\ SupplyOf(out.acct) = 900000
                      /\ NavOf(out.acct) = 1000000

\* The burn of the test was accepted in a test build: 1_000_000 -> 900_000.
C8_Witness ==
    /\ last.op = "BuybackBurn" /\ last.res = "Ok"
    /\ cfg_test
    /\ last.pre_nav = 1000000 /\ last.pre_supply = 1000000
    /\ SupplyOf(state_account) = 900000

\* At least `required_signatures` distinct admins have signed the action.
is_authorized(action) ==
    Cardinality({action.signed_by[k] : k \in DOMAIN action.signed_by}
                \cap admin_accounts) >= required_signatures

\* C9: a committed change of the NAV or the supply by UpdateNAV or
\* BuybackBurn happens only while some pending action is authorized.
C9_ChangeNeedsQuorum ==
    (/\ last.op \in {"UpdateNAV", "BuybackBurn"} /\ last.res = "Ok"
     /\ \/ NavOf(state_account) # last.pre_nav
        \/ SupplyOf(state_account) # last.pre_supply)
        => \E i \in DOMAIN pending_actions : is_authorized(pending_actions[i])

Range(seq) == {seq[k] : k \in DOMAIN seq}

\* verify_action answers true exactly for three or more provided signatures
\* that are all recorded for the pending action of that type.
VerifyActionAnswer ==
    \A t \in ActionTypes, g \in ProvidedLists :
        verify_action(pending_actions, t, g)
            <=> /\ Len(g) >= 3
                /\ \E i \in DOMAIN pending_actions :
                       /\ pending_actions[i].action_type = t
                       /\ Range(g) \subseteq Range(pending_actions[i].signatures)

\* C10: verify_action(action_type, provided) is true iff provided has at
\* least 3 entries, all among the signatures recorded for the pending action
\* of that type (so false when there is none), and a call of it leaves the
\* pending actions as they were.
C10_VerifyAction ==
    /\ []VerifyActionAnswer
    /\ [][last'.op = "verify_action" => pending_actions' = pending_actions]_vars

\* verify_action has answered true.
C10_Witness ==
    /\ last.op = "verify_action" /\ last.res = "Ok(true)"
    /\ pending_actions # <<>>

(***************************************************************************)
(* Properties of the multisig bookkeeping                                  *)
(***************************************************************************)
\* The admins recorded as signers of an action.
Signers(action) == Range(action.signed_by)

\* The pending actions of a type.
ActionsOfType(t) ==
    {i \in DOMAIN pending_actions : pending_actions[i].action_type = t}

\* C11: verify_action is false for every provided list while fewer than 3
\* distinct admins have signed the action, and true once 3 or more distinct
\* admins have signed and 3 or more distinct recorded signatures are provided.
C11_QuorumOfDistinctAdmins ==
    \A t \in ActionTypes, g \in ProvidedLists :
        \A i \in ActionsOfType(t) :
            LET action == pending_actions[i] IN
            /\ Cardinality(Signers(action)) < 3
                   => ~verify_action(pending_actions, t, g)
            /\ (/\ Cardinality(Signers(action)) >= 3
                /\ Cardinality(Range(g)) >= 3
                /\ Range(g) \subseteq Range(action.signatures))
                   => verify_action(pending_actions, t, g)

\* C12: sign_action by an admin who has already signed the pending action of
\* that type fails with the already-signed error and leaves the pending
\* actions (signatures and signers) as they were.
C12_SecondSignatureRejected ==
    \A k \in SignerKeys, t \in ActionTypes, d \in Descriptions, g \in Signatures :
        LET out == sign_action(pending_actions, admin_accounts, k, t, d, g) IN
        (/\ k \in admin_accounts
         /\ \E i \in ActionsOfType(t) : k \in Signers(pending_actions[i]))
            => /\ out.res = "AdminAlreadySigned"
               /\ out.pending = pending_actions

\* An admin's second signature was refused; the action holds just the first.
C12_Witness ==
    /\ last.op = "sign_action" /\ last.res = "AdminAlreadySigned"
    /\ Len(pending_actions) = 1
    /\ Len(pending_actions[1].signatures) = 1
    /\ Len(pending_actions[1].signed_by) = 1

\* C13: sign_action with a key outside the admin set fails with the
\* not-an-admin error and leaves the pending actions as they were: no action
\* is created and no signature added.
C13_NonAdminRejected ==
    \A k \in SignerKeys, t \in ActionTypes, d \in Descriptions, g \in Signatures :
        LET out == sign_action(pending_actions, admin_accounts, k, t, d, g) IN
        k \notin admin_accounts
            => /\ out.res = "NotAnAdmin"
               /\ out.pending = pending_actions

\* A signature by a non-admin was refused while an action was pending.
C13_Witness ==
    /\ last.op = "sign_action" /\ last.res = "NotAnAdmin"
    /\ pending_actions # <<>>

C15_InitializeOnce ==
    [][(/\ Readable(state_account)
        /\ last'.op \notin {"UpdateNAV", "BuybackBurn"}
        /\ Readable(state_account'))
          => get_data(state_account').val = Stored]_vars

\* C16: a successful Initialize(treasury_key) leaves the state account
\* holding nav_sats = 0, total_supply = 0, last_nav_update = 0 and the key
\* it was given.
C16_InitializedState ==
    \A c \in InitializeCalls :
        LET out == Outcome(c[1], c[2]) IN
        out.res = "Ok"
            => /\ Readable(out.acct)
               /\ get_data(out.acct).val.nav_sats = 0
               /\ get_data(out.acct).val.total_supply = 0
               /\ get_data(out.acct).val.last_nav_update = 0
               /\ get_data(out.acct).val.treasury_pubkey_bytes = c[2].arg

\* Initialize with a generated key succeeded on an account that held no state.
C16_Witness ==
    /\ last.op = "Initialize" /\ last.res = "Ok"
    /\ last.pre_nav = NoValue
    /\ Readable(state_account)
    /\ Stored = OVTState(0, GeneratedKey, 0, 0)

\* C17: a BuybackBurn decrements total_supply only when the UTXO claim that
\* comes with it is owned by the stored treasury key and is worth at least
\* payment_amount_sats.  process_buyback_burn reads ctx.get(0) and
\* ctx.get(1) only, so its outcome is the same whatever claim is presented.
C17_BurnNeedsVerifiedPayment ==
    \A c \in BuybackBurnCalls(PaymentValues), utxo_info \in UtxoClaims :
        LET out == Outcome(c[1], c[2]) IN
        (/\ Readable(state_account)
         /\ Readable(out.acct)
         /\ SupplyOf(out.acct) < SupplyOf(state_account))
            => /\ utxo_info.script_pubkey = Stored.treasury_pubkey_bytes
               /\ utxo_info.value >= c[2].arg

VerifiedClaim == verification.utxo_info
Verifier == verification.res # "none"
OwnedByTreasury == VerifiedClaim.script_pubkey = verification.treasury_pubkey

\* C18: verify_bitcoin_payment looks at the owner before the amount: a claim
\* of another owner is rejected with InvalidBitcoinPayment whatever its
\* amount, a claim of the treasury below the expected amount is rejected with
\* InsufficientFunds, and a claim of the treasury of at least the expected
\* amount is accepted with amount_sats equal to the claim's value.
C18_OwnerBeforeAmount ==
    Verifier =>
        /\ ~OwnedByTreasury => verification.res = "InvalidBitcoinPayment"
        /\ (OwnedByTreasury /\ VerifiedClaim.value < verification.expected_amount)
              => verification.res = "InsufficientFunds"
        /\ (OwnedByTreasury /\ VerifiedClaim.value >= verification.expected_amount)
              => /\ verification.res = "Ok"
                 /\ verification.payment.amount_sats = VerifiedClaim.value

\* A claim of another owner that is also too small has been rejected for
\* its owner.
C18_Witness ==
    /\ Verifier
    /\ ~OwnedByTreasury
    /\ VerifiedClaim.value < verification.expected_amount
    /\ verification.res = "InvalidBitcoinPayment"

\* C19: a claim of the treasury with a confirmation count below the minimum
\* (here: no confirmation at all) is rejected with InsufficientConfirmations
\* whatever its amount.
C19_ConfirmationsChecked ==
    (Verifier /\ OwnedByTreasury /\ VerifiedClaim.confirmations = 0)
        => verification.res = "InsufficientConfirmations"

\* C20: in both harnesses, when process_transaction returns Ok for
\* UpdateNAV(v) sent with a writable state account, get_account_data on
\* that account then returns a state with nav_sats = v.
C20_WriteVisibleInStore ==
    \A c \in UpdateNAVCalls(NavValues) :
        LET mine == process_transaction(state_account, c[1], admin_accounts, cfg_test, c[2])
            ovt == ovt_process_transaction(state_account, c[1], admin_accounts, cfg_test, c[2])
        IN  c[1].state_writable =>
            /\ mine.res = "Ok" =>
                  /\ get_account_data(mine.acct).ok
                  /\ get_account_data(mine.acct).val.nav_sats = c[2].arg
            /\ ovt.res = "Ok" =>
                  /\ get_account_data(ovt.acct).ok
                  /\ get_account_data(ovt.acct).val.nav_sats = c[2].arg

\* C21: a BuybackBurn whose authority signs but is not in the admin set is
\* rejected in every state and leaves total_supply as it was.
C21_NonAdminBurnRejected ==
    \A c \in BuybackBurnCalls(TestPayments) :
        LET out == Outcome(c[1], c[2]) IN
        (/\ c[1].n_accounts >= 2
         /\ c[1].authority_signer
         /\ c[1].authority_key \notin admin_accounts)
            => /\ out.res # "Ok"
               /\ SupplyOf(out.acct) = SupplyOf(state_account)

\* C22: mint_tokens, verify_admin_multisig and verify_mint_authorization
\* succeed exactly when at least 3 signatures and exactly 5 admin public
\* keys are supplied, and return an error otherwise.
C22_ThreeOfFive ==
    authorization.fn # "none" =>
        (authorization.res = "Ok"
            <=> /\ Len(authorization.signatures) >= 3
                /\ Len(authorization.admin_pubkeys) = 5)

\* mint_tokens was given 3 signatures and 4 admin keys and returned an error.
C22_Witness ==
    /\ authorization.fn = "mint_tokens"
    /\ Len(authorization.signatures) = 3
    /\ Len(authorization.admin_pubkeys) = 4
    /\ authorization.res = "InvalidAdminKeys"

\* C23: the admin set never has more than 5 members: no step removes an
\* admin or makes the set larger than 5, and create_admin_account called
\* with 5 admins fails, adds nothing to the accounts map and leaves the
\* admin set as it was.
C23_AtMostFiveAdmins ==
    [][/\ admin_accounts \subseteq admin_accounts'
       /\ Cardinality(admin_accounts') <= 5
       /\ (last'.op = "create_admin_account" /\ Cardinality(admin_accounts) >= 5)
             => /\ last'.res = "MaxAdmins"
                /\ admin_accounts' = admin_accounts
                /\ create_admin_account(admin_accounts).accounts_inserted = {}]_vars

\* create_admin_account has been refused with 5 admins in place.
C23_Witness ==
    /\ last.op = "create_admin_account"
    /\ last.res = "MaxAdmins"
    /\ Cardinality(admin_accounts) = 5

\* C24: a payload that is not exactly one encoded Initialize, UpdateNAV or
\* BuybackBurn makes process_instruction return InvalidInstructionData
\* whatever accounts come with it (too few, read-only, unsigned), and the
\* state account is left as it was.
C24_MalformedPayload ==
    \A ctx \in Contexts(2, Authorities) \cup Contexts(3, AdminAuthority),
       data \in MalformedPayloads :
        LET out == Outcome(ctx, data) IN
        /\ out.res = "InvalidInstructionData"
        /\ out.acct = state_account

\* A malformed payload has been refused on a state account holding a state.
C24_Witness ==
    /\ last.op = "Malformed"
    /\ last.res = "InvalidInstructionData"
    /\ Readable(state_account)
    /\ NavOf(state_account) = last.pre_nav

\* C25: a successful UpdateNAV leaves total_supply and the treasury key as
\* they were, and a successful BuybackBurn leaves nav_sats, last_nav_update
\* and the treasury key as they were.
C25_FrameOfSuccess ==
    /\ \A c \in UpdateNAVCalls(NavValues) :
          LET out == Outcome(c[1], c[2]) IN
          out.res = "Ok" =>
              /\ Readable(out.acct)
              /\ get_data(out.acct).val.total_supply = Stored.total_supply
              /\ get_data(out.acct).val.treasury_pubkey_bytes = Stored.treasury_pubkey_bytes
    /\ \A c \in BuybackBurnCalls(TestPayments) :
          LET out == Outcome(c[1], c[2]) IN
          out.res = "Ok" =>
              /\ Readable(out.acct)
              /\ get_data(out.acct).val.nav_sats = Stored.nav_sats
              /\ get_data(out.acct).val.last_nav_update = Stored.last_nav_update
              /\ get_data(out.acct).val.treasury_pubkey_bytes = Stored.treasury_pubkey_bytes

\* A burn has reduced the supply of a state whose NAV an earlier UpdateNAV
\* had set: the NAV's timestamp is still the one that update wrote.
C25_Witness ==
    /\ last.op = "BuybackBurn"
    /\ last.res = "Ok"
    /\ Readable(state_account)
    /\ Stored.total_supply < last.pre_supply
    /\ Stored.nav_sats = last.pre_nav
    /\ Stored.last_nav_update = MOCK_TIMESTAMP

\* The call passes the handler's tests of its authority.
AuthorityAccepted(ctx) ==
    /\ ctx.n_accounts >= 2
    /\ ctx.authority_signer
    /\ cfg_test => is_admin(ctx, admin_accounts)

\* C26: on a state with nav_sats = 0 and a valid treasury key, a BuybackBurn
\* is rejected for every payment and every supply, with InvalidNAVUpdate
\* when its authority is accepted, and the state account is unchanged.
C26_ZeroNavBurn ==
    \A c \in BuybackBurnCalls(PaymentValues) :
        LET out == Outcome(c[1], c[2]) IN
        (/\ Readable(state_account)
         /\ Stored.nav_sats = 0
         /\ validate_treasury(Stored) = "Ok")
            => /\ out.res # "Ok"
               /\ out.acct = state_account
               /\ AuthorityAccepted(c[1]) => out.res = "InvalidNAVUpdate"

\* A burn has been refused with InvalidNAVUpdate on a state with nav_sats = 0
\* and a supply to burn from.
C26_Witness ==
    /\ last.op = "BuybackBurn"
    /\ last.res = "InvalidNAVUpdate"
    /\ last.pre_nav = 0
    /\ last.pre_supply > 0
    /\ SupplyOf(state_account) = last.pre_supply

\* The operands of the computation and its exact product, at 128 bits.
WideProduct == wide_mul(computation.payment, computation.supply)
\* (n + 1) * nav, for a u64 n: the least product whose quotient exceeds n.
NextMultiple(n) == Add(wide_mul(n, computation.nav), Widen(computation.nav))
Burned == Sub(computation.supply, computation.new_supply)

\* C27: for u64 operands up to u64::MAX and a nonzero NAV the burn
\* computation never wraps.  It is accepted exactly when
\* floor(payment * total_supply / nav_sats), taken on the exact product, is
\* at most total_supply (so also at most u64::MAX), and then the new supply is
\* total_supply minus that quotient; otherwise it is rejected with
\* InvalidSupplyChange and total_supply is kept.
C27_BurnNeverWraps ==
    (computation.res \notin {"none", "pending"} /\ computation.nav # FromInt(0)) =>
        IF Less(WideProduct, NextMultiple(computation.supply))
        THEN /\ computation.res = "Ok"
             /\ ~Less(computation.supply, computation.new_supply)
             /\ ~Less(WideProduct, wide_mul(Burned, computation.nav))
             /\ Less(WideProduct, NextMultiple(Burned))
        ELSE /\ computation.res = "InvalidSupplyChange"
             /\ computation.new_supply = computation.supply

\* A computation whose product needs more than 64 bits and whose quotient
\* exceeds u64::MAX has been rejected.
C27_Witness ==
    /\ computation.res = "InvalidSupplyChange"
    /\ computation.payment = Pow2(63)
    /\ computation.supply = U64_MAX
    /\ computation.nav = FromInt(1)
    /\ ~FitsU64(WideProduct)

\* C28: on a state with nav_sats = 0, an UpdateNAV with a signing authority
\* (and a writable state account) succeeds for every value, inside or
\* outside the bounds applied later, and sets nav_sats to that value.
C28_FirstUpdateUnconstrained ==
    \A c \in UpdateNAVCalls(NavValues) :
        LET out == Outcome(c[1], c[2]) IN
        (/\ Readable(state_account)
         /\ Stored.nav_sats = 0
         /\ c[1].n_accounts >= 2
         /\ c[1].authority_signer
         /\ c[1].state_writable)
            => /\ out.res = "Ok"
               /\ NavOf(out.acct) = c[2].arg

\* The first update of an initialized state has set a NAV of 42 times the
\* reference NAV.
C28_Witness ==
    /\ last.op = "UpdateNAV"
    /\ last.res = "Ok"
    /\ last.pre_nav = 0
    /\ NavOf(state_account) = 42000000

\* C29: in every reachable state no admin key occurs twice among the
\* signers of a pending action.
C29_SignersDistinct ==
    \A i \in DOMAIN pending_actions :
        /\ Cardinality(Signers(pending_actions[i])) = Len(pending_actions[i].signed_by)
        /\ Len(pending_actions[i].signatures) = Len(pending_actions[i].signed_by)

\* Two admins have signed an action and a further signature by one of them
\* has just been refused.
C29_Witness ==
    /\ last.op = "sign_action"
    /\ last.res = "AdminAlreadySigned"
    /\ \E i \in DOMAIN pending_actions : Len(pending_actions[i].signed_by) >= 2

\* C30: nothing revokes, expires or consumes a signature.  In every step
\* (sign_action, verify_action, an instruction run directly or through
\* process_transaction) each pending action keeps its place and type and
\* does not lose signatures, and every signature list verify_action accepted
\* before the step is accepted after it.
C30_NoRevocation ==
    [][/\ Len(pending_actions') >= Len(pending_actions)
       /\ \A i \in DOMAIN pending_actions :
             /\ pending_actions'[i].action_type = pending_actions[i].action_type
             /\ Len(pending_actions'[i].signatures) >= Len(pending_actions[i].signatures)
       /\ \A t \in ActionTypes, g \in QuorumLists :
             verify_action(pending_actions, t, g) => verify_action(pending_actions', t, g)
      ]_vars

\* The action "update_nav" is verified for three recorded signatures and
\* the UpdateNAV it was signed for has just been executed.
C30_Witness ==
    /\ last.op = "UpdateNAV"
    /\ last.res = "Ok"
    /\ \E i \in ActionsOfType("update_nav") :
          Cardinality(Signers(pending_actions[i])) >= 3
    /\ verify_action(pending_actions, "update_nav", <<"sig_0", "sig_1", "sig_0">>)

(***************************************************************************)
(* Properties of the result and the keying of sign_action                  *)
(***************************************************************************)
\* The sign_action calls of the multisig specification.
SignActionCalls == SignerKeys \X ActionTypes \X Descriptions \X Signatures

\* The signatures recorded in `pending` for the action of type t.
RecordedFor(pending, t) ==
    IF Find(pending, t) = 0 THEN <<>> ELSE pending[Find(pending, t)].signatures

\* C31: a successful sign_action returns true exactly when the pending
\* action named by its action_type has at least 3 signatures after the call,
\* whatever other pending actions exist and in whatever order they were
\* created.
C31_ResultReportsSignedAction ==
    \A c \in SignActionCalls :
        LET out == sign_action(pending_actions, admin_accounts,
                               c[1], c[2], c[3], c[4]) IN
        out.res \in {"Ok(true)", "Ok(false)"}
            => (out.res = "Ok(true)"
                    <=> Len(RecordedFor(out.pending, c[2])) >= required_signatures)

\* The signers recorded in `pending` for the action of type t.
SignedByFor(pending, t) ==
    IF Find(pending, t) = 0 THEN <<>> ELSE pending[Find(pending, t)].signed_by

\* The pending actions after a sign_action call.
AfterSign(pending, c) ==
    sign_action(pending, admin_accounts, c[1], c[2], c[3], c[4]).pending

\* Two lists of pending actions hold the same for every label: signatures,
\* signers and the answers of verify_action.
SamePerLabel(p, q) ==
    \A t \in ActionTypes :
        /\ RecordedFor(p, t) = RecordedFor(q, t)
        /\ SignedByFor(p, t) = SignedByFor(q, t)
        /\ \A g \in QuorumLists : verify_action(p, t, g) = verify_action(q, t, g)

\* Two sign_action calls for different labels commute on every label.
LabelsCommute ==
    \A c1 \in SignActionCalls, c2 \in SignActionCalls :
        c1[2] # c2[2]
            => SamePerLabel(AfterSign(AfterSign(pending_actions, c1), c2),
                            AfterSign(AfterSign(pending_actions, c2), c1))

\* A sign_action step leaves what is recorded for every other label.
OtherLabelsKept ==
    \A c \in SignActionCalls, t \in ActionTypes :
        t # c[2]
            => /\ RecordedFor(AfterSign(pending_actions, c), t)
                      = RecordedFor(pending_actions, t)
               /\ SignedByFor(AfterSign(pending_actions, c), t)
                      = SignedByFor(pending_actions, t)

\* C32: pending actions with distinct action_type labels are independent
\* accumulators: a sign_action for one label never changes the signatures or
\* signers recorded for another label, and two sign_action calls for
\* different labels give, in either order, the same signers, signatures and
\* verify_action answers for each label (so every interleaving of the same
\* calls across labels does).
C32_LabelsIndependent == OtherLabelsKept /\ LabelsCommute

\* Both labels have a pending action signed by two admins.
C32_Witness ==
    /\ last.op = "sign_action" /\ last.res \in {"Ok(true)", "Ok(false)"}
    /\ Len(pending_actions) = 2
    /\ pending_actions[1].action_type # pending_actions[2].action_type
    /\ Len(pending_actions[1].signed_by) = 2
    /\ Len(pending_actions[2].signed_by) = 2

\* The sign_action calls under either description.
DescribedCalls == SignerKeys \X ActionTypes \X TwoDescriptions \X {"sig_0"}

\* C33: a pending action is keyed by its action_type together with its
\* description: a successful sign_action records its signer in a pending
\* action of that action_type and that description, and leaves every pending
\* action of the same action_type under another description as it was.
C33_KeyedByDescription ==
    \A c \in DescribedCalls :
        LET out == sign_action(pending_actions, admin_accounts,
                               c[1], c[2], c[3], c[4]) IN
        out.res \in {"Ok(true)", "Ok(false)"}
            => /\ \E i \in DOMAIN out.pending :
                      /\ out.pending[i].action_type = c[2]
                      /\ out.pending[i].description = c[3]
                      /\ Contains(out.pending[i].signed_by, c[1])
               /\ \A i \in DOMAIN pending_actions :
                      (/\ pending_actions[i].action_type = c[2]
                       /\ pending_actions[i].description # c[3])
                          => out.pending[i] = pending_actions[i]

(***************************************************************************)
(* Properties of RunesClient::make_request                                 *)
(***************************************************************************)
\* The outcomes of the execute_request calls of the call in flight.
Made == request.attempts

\* At most three execute_request calls; none follows a success; the first
\* success is what the call returns (decoded), and three failures return the
\* error of the third.
AttemptsBounded ==
    /\ Len(Made) <= 3
    /\ \A i \in 1..(Len(Made) - 1) : ~Made[i].ok
    /\ (Len(Made) > 0 /\ Made[Len(Made)].ok)
           => /\ request.pc = "returned"
              /\ request.ret = from_slice(Made[Len(Made)].v)
    /\ (Len(Made) = 3 /\ ~Made[3].ok)
           => /\ request.pc = "returned"
              /\ request.ret = Returned(FALSE, Made[3].v)
    /\ (request.pc = "loop") => Len(Made) < 3

\* The cache is written only by a successful execute_request of a call that
\* was given both a key and a TTL, and then under that key.
CacheWrites ==
    [][/\ (last'.op = "execute_request" /\ last'.res = "Err") => cache' = cache
       /\ cache' # cache
              => /\ last'.op = "execute_request" /\ last'.res = "Ok"
                 /\ request.cache_key # None /\ request.cache_ttl # None
                 /\ cache' = [cache EXCEPT ![request.cache_key] =
                                  request'.attempts[Len(request'.attempts)].v]
       /\ (/\ last'.op = "execute_request" /\ last'.res = "Ok"
           /\ request.cache_key # None /\ request.cache_ttl # None)
              => cache'[request.cache_key]
                     = request'.attempts[Len(request'.attempts)].v]_vars

\* C34: make_request makes at most 3 execute_request calls and returns: the
\* first success ends the call with that response, three failures end it
\* with the error of the last attempt; a failed attempt leaves the cache as
\* it was, and a response is cached only when a key and a TTL were given.
C34_BoundedRetries ==
    /\ []AttemptsBounded
    /\ CacheWrites
    /\ (request.pc = "loop") ~> (request.pc = "returned")

\* A call given a key and a TTL has failed twice and then succeeded, and its
\* response is in the cache.
C34_Witness ==
    /\ request.pc = "returned"
    /\ Len(request.attempts) = 3
    /\ ~request.attempts[1].ok /\ ~request.attempts[2].ok
    /\ request.attempts[3].ok
    /\ request.cache_key = "key_a" /\ request.cache_ttl # None
    /\ cache["key_a"] = request.attempts[3].v
    /\ request.ret = Returned(TRUE, "json_a")

(***************************************************************************)
(* Monotonicity of the supply and the NAV window                           *)
(***************************************************************************)
\* The total_supply field of the account's bytes, readable as a state or not
\* (zero where the buffer is too short to hold one).
RawSupply(acct) == acct.data.st.total_supply

\* C35: total_supply never increases: after every Initialize, UpdateNAV or
\* BuybackBurn instruction, successful or rejected, the total_supply held by
\* the state account is at most what it was before, so a supply of 0 (as
\* Initialize creates it) stays 0 under these instructions.
C35_SupplyNeverIncreases ==
    [][last'.op \in Instructions \cup {"Malformed"}
          => /\ RawSupply(state_account') <= RawSupply(state_account)
             /\ RawSupply(state_account') >= 0
             /\ (last'.op = "Initialize" /\ last'.res = "Ok")
                    => SupplyOf(state_account') = 0]_vars

\* A burn has reduced a supply of 1 000 000.
C35_Witness ==
    /\ last.op = "BuybackBurn" /\ last.res = "Ok"
    /\ last.pre_supply = 1000000
    /\ SupplyOf(state_account) < 1000000
    /\ SupplyOf(state_account) > 0

\* An UpdateNAV on a state with nav_sats > 0 is accepted exactly for values
\* inside the absolute window, whatever the NAV it replaces.
AbsoluteWindow ==
    NavOf(state_account) > 0 =>
        \A c \in UpdateNAVCalls(NavValues) :
            LET out == Outcome(c[1], c[2]) IN
            /\ out.res = "Ok"
                   => /\ NavOf(out.acct) = c[2].arg
                      /\ InPolicyWindow(NavOf(out.acct))
            /\ WellFormed(c[1])
                   => (out.res = "Ok" <=> InPolicyWindow(c[2].arg))

\* C36: every successful UpdateNAV on a state with nav_sats > 0 leaves
\* nav_sats within [50_000, 41_000_000], whatever the current NAV and the
\* first NAV set; so no UpdateNAV or BuybackBurn takes a nonzero nav_sats
\* back to 0.
C36_AbsoluteNavWindow ==
    /\ []AbsoluteWindow
    /\ [][(last'.op \in {"UpdateNAV", "BuybackBurn"} /\ NavOf(state_account) > 0)
             => NavOf(state_account') > 0]_vars

\* A NAV outside the window (set as the first NAV) was replaced by the
\* window's upper end.
C36_Witness ==
    /\ last.op = "UpdateNAV" /\ last.res = "Ok"
    /\ last.pre_nav = 42000000
    /\ NavOf(state_account) = 41000000

(***************************************************************************)
(* The treasury key and the burn                                           *)
(***************************************************************************)
\* On a state whose stored key is no valid public key, every BuybackBurn is
\* rejected and changes nothing, with InvalidTreasuryKey when its authority
\* is accepted, whatever the NAV, the supply and the payment.
InvalidKeyRefusesBurn ==
    (Readable(state_account) /\ validate_treasury(Stored) # "Ok") =>
        \A c \in BuybackBurnCalls(PaymentValues) :
            LET out == Outcome(c[1], c[2]) IN
            /\ out.res # "Ok"
            /\ out.acct = state_account
            /\ AuthorityAccepted(c[1]) => out.res = "InvalidTreasuryKey"

\* C37: BuybackBurn is rejected with InvalidTreasuryKey, ahead of the burn
\* arithmetic and with total_supply unchanged, whenever the stored treasury
\* key is not a valid public key; UpdateNAV and BuybackBurn never change the
\* stored key, so a state initialized with the all-zero key rejects every
\* BuybackBurn until it is initialized again.
C37_InvalidTreasuryKey ==
    /\ []InvalidKeyRefusesBurn
    /\ [][(/\ last'.op \in {"UpdateNAV", "BuybackBurn"}
           /\ Readable(state_account))
             => /\ Readable(state_account')
                /\ get_data(state_account').val.treasury_pubkey_bytes
                       = Stored.treasury_pubkey_bytes]_vars

\* A burn by an accepted authority was refused for the key on a state whose
\* NAV is 0, where the arithmetic would have refused it too.
C37_Witness ==
    /\ last.op = "BuybackBurn" /\ last.res = "InvalidTreasuryKey"
    /\ Readable(state_account)
    /\ Stored.treasury_pubkey_bytes = ZeroKey
    /\ Stored.nav_sats = 0
    /\ Stored.total_supply > 0

(***************************************************************************)
(* Shape of the pending actions                                            *)
(***************************************************************************)
\* C38: in every reachable state of the multisig bookkeeping there is at most
\* one pending action per action_type, each pending action has at least one
\* signature, its signature list and signer list have the same length, and
\* that length is at most the number of admins, itself at most 5.
C38_PendingActionsShape ==
    /\ \A t \in ActionTypes : Cardinality(ActionsOfType(t)) <= 1
    /\ \A i \in DOMAIN pending_actions :
           LET action == pending_actions[i] IN
           /\ action.action_type \in ActionTypes
           /\ Len(action.signatures) >= 1
           /\ Len(action.signatures) = Len(action.signed_by)
           /\ Len(action.signed_by) <= Cardinality(admin_accounts)
    /\ Cardinality(admin_accounts) <= total_admins

\* Two pending actions, the older signed by every admin there is.
C38_Witness ==
    /\ Len(pending_actions) = 2
    /\ Len(pending_actions[1].signed_by) = Cardinality(admin_accounts)
    /\ Cardinality(admin_accounts) = 3
    /\ Len(pending_actions[2].signatures) = 1

(***************************************************************************)
(* Commit of a transaction by the client (src/program)                     *)
(***************************************************************************)
\* What the handler does on the context process_transaction builds for it.
Handled(c) ==
    process_instruction(state_account, [c[1] EXCEPT !.has_test_client = TRUE],
                        admin_accounts, cfg_test, c[2])

\* C39: process_transaction of src/program commits all or nothing: when the
\* handler returns an error the call returns it and the stored account is
\* what it was, and when the handler returns Ok the call returns Ok and the
\* stored account, passed as writable, holds what the handler wrote.
C39_AllOrNothing ==
    \A c \in ClientCalls :
        LET out == process_transaction(state_account, c[1], admin_accounts,
                                       cfg_test, c[2]) IN
        /\ Handled(c).res # "Ok"
               => out.res = Handled(c).res /\ out.acct = state_account
        /\ (Handled(c).res = "Ok" /\ c[1].state_writable)
               => out.res = "Ok" /\ out.acct = Handled(c).acct

====
